---- MODULE Spec2Model ----
(***************************************************************************)
(* A model of locatorpro-playwright: the LocatorEngine (strategy           *)
(* generation, validation, primary selection, confidence) and the          *)
(* SmartLocator finders built on createSelfHealingLocator.                 *)
(*                                                                         *)
(* Strings are TLA+ strings; selectors are built by concatenation exactly  *)
(* as the template literals of the source build them.  A strategy is a     *)
(* record [type, selector, priority, reliability]; reliability is kept in  *)
(* hundredths (0.95 is 95).  The description field of a strategy is only   *)
(* logged and is left out.  An optional value (string | undefined) is a    *)
(* sequence of length 0 or 1.                                              *)
(***************************************************************************)
EXTENDS Integers, Sequences, FiniteSets, TLC

VARIABLES
    pc,          \* which operation produced the current state
    config,      \* LocatorEngine.config (Required<LocatorConfig>)
    element,     \* the DOM element handed to generateSelectors
    elementData, \* captureElementData(element)
    generated,   \* generateAllStrategies(...)
    sorted,      \* generated, sorted by priority and sliced to maxStrategies
    matches,     \* per sorted strategy: uniqueMatches found by testStrategy
    errors,      \* the sorted strategies (by index) whose query threw, caught by testStrategy
    result,      \* the LocatorResult: strategies, primarySelector, confidence
    again,       \* the LocatorResult of a repeated call on the same element
    options,     \* SmartLocator.options, as far as the finders read it
    page,        \* SmartLocator.page: the document, its elements in document order
    finder,      \* the finder call in progress and its arguments
    outcome,     \* what the finder call produced: a composite locator or an error
    calls        \* the concurrent finder calls on the instance, each with its locals

engineVars == <<element, elementData, generated, sorted, matches, errors, result, again>>
smartVars == <<options, page, finder, outcome, calls>>
vars == <<pc, config, element, elementData, generated, sorted, matches, errors, result,
          again,
          options, page, finder, outcome, calls>>

----------------------------------------------------------------------------
(* JavaScript string and array primitives used by the source *)

Min(a, b) == IF a < b THEN a ELSE b
Max(a, b) == IF a > b THEN a ELSE b

\* String.prototype.includes
Includes(s, t) ==
    \E i \in 1..(Len(s) - Len(t) + 1) : SubSeq(s, i, i + Len(t) - 1) = t

\* String.prototype.startsWith
StartsWith(s, t) == Len(t) <= Len(s) /\ SubSeq(s, 1, Len(t)) = t

\* String.prototype.substring(a, b) for 0 <= a <= b (zero-based, b exclusive)
Substring(s, a, b) == SubSeq(s, a + 1, Min(b, Len(s)))

UpperChars == "ABCDEFGHIJKLMNOPQRSTUVWXYZ"
LowerChars == "abcdefghijklmnopqrstuvwxyz"
DigitChars == "0123456789"

CharAt(s, i) == SubSeq(s, i, i)

CharSet(s) == {CharAt(s, i) : i \in 1..Len(s)}
UpperSet == CharSet(UpperChars)
LowerSet == CharSet(LowerChars)
DigitSet == CharSet(DigitChars)

LowerMap ==
    [c \in UpperSet |->
        CharAt(LowerChars, CHOOSE i \in 1..Len(UpperChars) : CharAt(UpperChars, i) = c)]

LowerOf(c) == IF c \in UpperSet THEN LowerMap[c] ELSE c

\* String.prototype.toLowerCase
RECURSIVE ToLowerCase(_)
ToLowerCase(s) ==
    IF s = "" THEN "" ELSE LowerOf(CharAt(s, 1)) \o ToLowerCase(SubSeq(s, 2, Len(s)))

\* String.prototype.trim (spaces are the only white space of the inputs)
RECURSIVE TrimStart(_)
TrimStart(s) ==
    IF s # "" /\ CharAt(s, 1) = " " THEN TrimStart(SubSeq(s, 2, Len(s))) ELSE s

RECURSIVE TrimEnd(_)
TrimEnd(s) ==
    IF s # "" /\ CharAt(s, Len(s)) = " " THEN TrimEnd(SubSeq(s, 1, Len(s) - 1)) ELSE s

Trim(s) == TrimEnd(TrimStart(s))

\* String.prototype.split(' ')
RECURSIVE SplitSpace(_)
SplitSpace(s) ==
    IF \E i \in 1..Len(s) : CharAt(s, i) = " "
    THEN LET i == CHOOSE j \in 1..Len(s) :
                    CharAt(s, j) = " " /\ \A k \in 1..(j - 1) : CharAt(s, k) # " "
         IN  <<SubSeq(s, 1, i - 1)>> \o SplitSpace(SubSeq(s, i + 1, Len(s)))
    ELSE <<s>>

IsDigit(c) == c \in DigitSet
IsLower(c) == c \in LowerSet
IsUpper(c) == c \in UpperSet
IsWordChar(c) == IsDigit(c) \/ IsLower(c) \/ IsUpper(c) \/ c = "_"

AllChars(s, P(_)) == \A i \in 1..Len(s) : P(CharAt(s, i))
Digits1(s) == s # "" /\ AllChars(s, IsDigit)      \* \d+
Word1(s) == s # "" /\ AllChars(s, IsWordChar)     \* \w+

\* Array.prototype.filter
Filter(s, P(_)) == SelectSeq(s, P)

\* Array.prototype.slice(0, n)
Slice0(s, n) ==
    IF n >= 0 THEN SubSeq(s, 1, Min(n, Len(s)))
    ELSE SubSeq(s, 1, Max(Len(s) + n, 0))

\* an insertion that puts a strategy before those of equal priority
RECURSIVE InsertBeforeEqual(_, _)
InsertBeforeEqual(s, x) ==
    IF s = <<>> THEN <<x>>
    ELSE IF x.priority <= Head(s).priority THEN <<x>> \o s
    ELSE <<Head(s)>> \o InsertBeforeEqual(Tail(s), x)

\* Array.prototype.sort((a, b) => a.priority - b.priority): a stable sort
RECURSIVE InsertByPriority(_, _)
InsertByPriority(s, x) ==
    IF s = <<>> THEN <<x>>
    ELSE IF x.priority < Head(s).priority THEN <<x>> \o s
    ELSE <<Head(s)>> \o InsertByPriority(Tail(s), x)

RECURSIVE SortByPriority(_)
SortByPriority(s) ==
    IF s = <<>> THEN <<>>
    ELSE InsertByPriority(SortByPriority(SubSeq(s, 1, Len(s) - 1)), s[Len(s)])

\* a value "x || undefined": the empty string is falsy
OrUndefined(s) == IF s = "" THEN <<>> ELSE <<s>>

\* truthiness of an optional string
Truthy(o) == o # <<>> /\ o[1] # ""

\* attributes[name] of a Record<string, string>
Attr(attributes, name) ==
    IF name \in DOMAIN attributes THEN <<attributes[name]>> ELSE <<>>

----------------------------------------------------------------------------
(* LocatorEngine: utility methods *)

TestPatterns == <<"test", "qa", "cypress", "selenium", "playwright", "automation">>

isTestLikeId(id) ==
    \E i \in 1..Len(TestPatterns) : Includes(ToLowerCase(id), TestPatterns[i])

\* -\d+ at the end of a pattern
DashDigits(r) == Len(r) >= 2 /\ CharAt(r, 1) = "-" /\ Digits1(SubSeq(r, 2, Len(r)))

\* /^(p|m)[trblxy]?-\d+$/
IsSpacingClass(c) ==
    /\ c # "" /\ CharAt(c, 1) \in {"p", "m"}
    /\ \/ DashDigits(SubSeq(c, 2, Len(c)))
       \/ /\ Len(c) >= 2 /\ CharAt(c, 2) \in {"t", "r", "b", "l", "x", "y"}
          /\ DashDigits(SubSeq(c, 3, Len(c)))

\* /^text-(xs|sm|base|lg|xl|\d*xl)$/
IsTextSizeClass(c) ==
    /\ StartsWith(c, "text-")
    /\ LET r == SubSeq(c, 6, Len(c))
       IN  \/ r \in {"xs", "sm", "base", "lg", "xl"}
           \/ /\ Len(r) >= 2 /\ SubSeq(r, Len(r) - 1, Len(r)) = "xl"
              /\ AllChars(SubSeq(r, 1, Len(r) - 2), IsDigit)

\* /^(w|h)-\d+$/
IsSizeClass(c) ==
    c # "" /\ CharAt(c, 1) \in {"w", "h"} /\ DashDigits(SubSeq(c, 2, Len(c)))

\* \w+(-\d+)?$
WordOptDigits(r) ==
    \/ Word1(r)
    \/ \E i \in 2..(Len(r) - 1) :
          /\ CharAt(r, i) = "-"
          /\ Word1(SubSeq(r, 1, i - 1))
          /\ Digits1(SubSeq(r, i + 1, Len(r)))

\* /^(bg|text|border)-\w+(-\d+)?$/
IsColorClass(c) ==
    \E p \in {"bg-", "text-", "border-"} :
        StartsWith(c, p) /\ WordOptDigits(SubSeq(c, Len(p) + 1, Len(c)))

\* /^(flex|block|inline|hidden)$/
IsDisplayClass(c) == c \in {"flex", "block", "inline", "hidden"}

\* /^[a-z0-9]{6,}$/
IsLongRandomClass(c) ==
    Len(c) >= 6 /\ \A i \in 1..Len(c) : IsLower(CharAt(c, i)) \/ IsDigit(CharAt(c, i))

isUtilityClass(className) ==
    \/ IsSpacingClass(className)
    \/ IsTextSizeClass(className)
    \/ IsSizeClass(className)
    \/ IsColorClass(className)
    \/ IsDisplayClass(className)
    \/ IsLongRandomClass(className)

NotUtilityClass(cls) == ~isUtilityClass(cls)

selectBestClass(classes) ==
    LET semanticClasses == Filter(classes, NotUtilityClass)
    IN  IF Len(semanticClasses) > 0 THEN semanticClasses[1] ELSE classes[1]

getInputRole(type) ==
    IF ~Truthy(type) THEN <<"textbox">>
    ELSE CASE type[1] \in {"button", "submit", "reset"} -> <<"button">>
           [] type[1] = "checkbox" -> <<"checkbox">>
           [] type[1] = "radio" -> <<"radio">>
           [] type[1] \in {"text", "email", "password", "tel", "url"} -> <<"textbox">>
           [] type[1] = "search" -> <<"searchbox">>
           [] type[1] = "number" -> <<"spinbutton">>
           [] type[1] = "range" -> <<"slider">>
           [] OTHER -> <<"textbox">>

getImplicitRole(tagName, attributes) ==
    CASE tagName = "button" -> <<"button">>
      [] tagName = "a" -> IF Truthy(Attr(attributes, "href")) THEN <<"link">> ELSE <<>>
      [] tagName = "input" -> getInputRole(Attr(attributes, "type"))
      [] tagName = "select" -> <<"combobox">>
      [] tagName = "textarea" -> <<"textbox">>
      [] tagName = "img" -> <<"img">>
      [] tagName = "nav" -> <<"navigation">>
      [] tagName = "main" -> <<"main">>
      [] tagName = "header" -> <<"banner">>
      [] tagName = "footer" -> <<"contentinfo">>
      [] tagName = "aside" -> <<"complementary">>
      [] tagName = "section" -> <<"region">>
      [] tagName = "article" -> <<"article">>
      [] tagName \in {"h1", "h2", "h3", "h4", "h5", "h6"} -> <<"heading">>
      [] OTHER -> <<>>

----------------------------------------------------------------------------
(* The DOM element seen by the engine.  An element is a record              *)
(*   [path, attributes, textContent, x2, y2]                                *)
(* where path[1] is the element itself and path[i+1] the parentElement of   *)
(* path[i]; each level is [tagName, id, prev], prev being the tagNames of   *)
(* its previousElementSibling chain.  tagName is upper case as the DOM      *)
(* reports it.  x2 and y2 are twice the rectangle's x and y, so that half   *)
(* pixels exist.                                                            *)

ElementId(el) == el.path[1].id
ElementClassName(el) ==
    IF "class" \in DOMAIN el.attributes THEN el.attributes["class"] ELSE ""

\* Math.round of a value given as twice itself
MathRound2(v2) == (v2 + 1) \div 2

\* number of s[i] with s[i] = t
CountEq(s, t) == Cardinality({i \in 1..Len(s) : s[i] = t})

RECURSIVE JoinWith(_, _)
JoinWith(parts, sep) ==
    IF parts = <<>> THEN ""
    ELSE IF Len(parts) = 1 THEN parts[1]
    ELSE parts[1] \o sep \o JoinWith(Tail(parts), sep)

\* path segments that are wildcard steps with the position among all siblings
RECURSIVE XPathPartsWildcard(_)
XPathPartsWildcard(path) ==
    IF path = <<>> THEN <<>>
    ELSE LET index == 1 + Len(path[1].prev)
             pathSegment == IF index > 1
                            THEN "*[" \o ToString(index) \o "]"
                            ELSE "*"
         IN  XPathPartsWildcard(Tail(path)) \o <<pathSegment>>

\* the parts of generateXPath, root first
RECURSIVE XPathParts(_)
XPathParts(path) ==
    IF path = <<>> THEN <<>>
    ELSE LET tagName == ToLowerCase(path[1].tagName)
             lowered == [i \in 1..Len(path[1].prev) |-> ToLowerCase(path[1].prev[i])]
             index == 1 + CountEq(lowered, tagName)
             pathSegment == IF index > 1
                            THEN tagName \o "[" \o ToString(index) \o "]"
                            ELSE tagName
         IN  XPathParts(Tail(path)) \o <<pathSegment>>

generateXPath(el) == "//" \o JoinWith(XPathParts(el.path), "/")

\* the parts of generateCssPath, outermost first; an element with an id ends the climb
RECURSIVE CssPathParts(_)
CssPathParts(path) ==
    IF path = <<>> THEN <<>>
    ELSE LET selector == ToLowerCase(path[1].tagName)
             index == 1 + CountEq(path[1].prev, path[1].tagName)
         IN  IF path[1].id # ""
             THEN <<selector \o "#" \o path[1].id>>
             ELSE CssPathParts(Tail(path)) \o
                  <<IF index > 1
                    THEN selector \o ":nth-child(" \o ToString(index) \o ")"
                    ELSE selector>>

generateCssPath(el) == JoinWith(CssPathParts(el.path), " > ")

captureElementData(el) ==
    [ tagName |-> ToLowerCase(el.path[1].tagName),
      id |-> OrUndefined(ElementId(el)),
      className |-> OrUndefined(ElementClassName(el)),
      textContent |-> OrUndefined(Trim(el.textContent)),
      attributes |-> el.attributes,
      position |-> [x2 |-> el.x2, y2 |-> el.y2],
      xpath |-> generateXPath(el),
      cssPath |-> generateCssPath(el) ]

----------------------------------------------------------------------------
(* LocatorEngine: strategy generation *)

\* a strategy that forgets its tier: every priority is 1
StrategyUnranked(type, selector, priority, reliability) ==
    [type |-> type, selector |-> selector, priority |-> 1,
     reliability |-> reliability]

Strategy(type, selector, priority, reliability) ==
    [type |-> type, selector |-> selector, priority |-> priority,
     reliability |-> reliability]

\* [name="value"] of a present attribute
AttrSelector(name, attributes) == "[" \o name \o "=\"" \o attributes[name] \o "\"]"

\* test attributes ranked the other way round: a test-like id first, data-testid last
addTestAttributeStrategiesIdFirst(ed) ==
    (IF Truthy(ed.id) /\ isTestLikeId(ed.id[1])
     THEN <<Strategy("id", "#" \o ed.id[1], 1, 80)>>
     ELSE <<>>)
    \o (IF Truthy(Attr(ed.attributes, "data-testid"))
        THEN <<Strategy("data-testid", AttrSelector("data-testid", ed.attributes), 5, 95)>>
        ELSE <<>>)

\* Priority 1-5: Test-specific attributes
addTestAttributeStrategies(ed) ==
    (IF Truthy(Attr(ed.attributes, "data-testid"))
     THEN <<Strategy("data-testid", AttrSelector("data-testid", ed.attributes), 1, 95)>>
     ELSE <<>>)
    \o (IF Truthy(Attr(ed.attributes, "data-test"))
        THEN <<Strategy("data-testid", AttrSelector("data-test", ed.attributes), 2, 90)>>
        ELSE <<>>)
    \o (IF Truthy(Attr(ed.attributes, "data-qa"))
        THEN <<Strategy("data-testid", AttrSelector("data-qa", ed.attributes), 3, 90)>>
        ELSE <<>>)
    \o (IF Truthy(Attr(ed.attributes, "test-id"))
        THEN <<Strategy("data-testid", AttrSelector("test-id", ed.attributes), 4, 85)>>
        ELSE <<>>)
    \o (IF Truthy(ed.id) /\ isTestLikeId(ed.id[1])
        THEN <<Strategy("id", "#" \o ed.id[1], 5, 80)>>
        ELSE <<>>)

\* Priority 6-10: Semantic attributes
addSemanticStrategies(ed) ==
    (IF Truthy(ed.id) /\ ~isTestLikeId(ed.id[1])
     THEN <<Strategy("id", "#" \o ed.id[1], 6, 80)>>
     ELSE <<>>)
    \o (IF Truthy(Attr(ed.attributes, "aria-label"))
        THEN <<Strategy("aria-label", AttrSelector("aria-label", ed.attributes), 7, 75)>>
        ELSE <<>>)
    \o (IF Truthy(Attr(ed.attributes, "aria-labelledby"))
        THEN <<Strategy("aria-label", AttrSelector("aria-labelledby", ed.attributes), 8, 70)>>
        ELSE <<>>)
    \o (IF Truthy(Attr(ed.attributes, "name"))
        THEN <<Strategy("css", AttrSelector("name", ed.attributes), 9, 75)>>
        ELSE <<>>)
    \o (IF Truthy(Attr(ed.attributes, "for"))
        THEN <<Strategy("css", AttrSelector("for", ed.attributes), 10, 70)>>
        ELSE <<>>)

\* Priority 11-15: Role-based strategies
addRoleStrategies(ed) ==
    LET implicitRoles == getImplicitRole(ed.tagName, ed.attributes)
    IN  (IF Truthy(Attr(ed.attributes, "role"))
         THEN <<Strategy("role", AttrSelector("role", ed.attributes), 11, 60)>>
         ELSE <<>>)
        \o [index \in 1..Len(implicitRoles) |->
              Strategy("role",
                       ed.tagName \o "[role=\"" \o implicitRoles[index] \o "\"]",
                       12 + (index - 1), 55)]

\* Priority 16-20: Text-based strategies
addTextStrategies(ed) ==
    IF ~Truthy(ed.textContent) \/ Len(ed.textContent[1]) > 50 THEN <<>>
    ELSE LET textContent == ed.textContent[1]
             partialText == Substring(textContent, 0, Min(20, Len(textContent)))
         IN  <<Strategy("text", "text=\"" \o textContent \o "\"", 16, 70)>>
             \o (IF Len(textContent) > 10
                 THEN <<Strategy("text", "text*=\"" \o partialText \o "\"", 17, 60)>>
                 ELSE <<>>)
             \o <<Strategy("text",
                           ed.tagName \o ":has-text(\"" \o textContent \o "\")", 18, 65)>>
             \o (IF Truthy(Attr(ed.attributes, "placeholder"))
                 THEN <<Strategy("css", AttrSelector("placeholder", ed.attributes), 19, 70)>>
                 ELSE <<>>)
             \o (IF Truthy(Attr(ed.attributes, "alt"))
                 THEN <<Strategy("css", AttrSelector("alt", ed.attributes), 20, 70)>>
                 ELSE <<>>)

NonEmptyNotUtility(cls) == Len(cls) > 0 /\ ~isUtilityClass(cls)

\* structure strategies whose class is the first token, utility or not
addStructureStrategiesFirstToken(cfg, ed) ==
    LET classes == IF Truthy(ed.className)
                   THEN SelectSeq(SplitSpace(ed.className[1]), LAMBDA cls : Len(cls) > 0)
                   ELSE <<>>
    IN  (IF Len(classes) > 0
         THEN << Strategy("css", "." \o classes[1], 21, 50),
                 Strategy("css", ed.tagName \o "." \o classes[1], 22, 55) >>
         ELSE <<>>)
        \o (IF ed.tagName = "input" /\ Truthy(Attr(ed.attributes, "type"))
            THEN <<Strategy("css", "input[type=\"" \o ed.attributes["type"] \o "\"]", 23, 40)>>
            ELSE <<>>)
        \o <<Strategy("css", ed.tagName, 24, 20)>>
        \o (IF cfg.includeCssPath /\ ed.cssPath # ""
            THEN <<Strategy("css", ed.cssPath, 25, 80)>>
            ELSE <<>>)

\* Priority 21-25: Structure-based strategies
addStructureStrategies(cfg, ed) ==
    LET classes == IF Truthy(ed.className)
                   THEN Filter(SplitSpace(ed.className[1]), NonEmptyNotUtility)
                   ELSE <<>>
    IN  (IF Len(classes) > 0
         THEN LET bestClass == selectBestClass(classes)
              IN  << Strategy("css", "." \o bestClass, 21, 50),
                     Strategy("css", ed.tagName \o "." \o bestClass, 22, 55) >>
         ELSE <<>>)
        \o (IF ed.tagName = "input" /\ Truthy(Attr(ed.attributes, "type"))
            THEN <<Strategy("css", "input[type=\"" \o ed.attributes["type"] \o "\"]", 23, 40)>>
            ELSE <<>>)
        \o <<Strategy("css", ed.tagName, 24, 20)>>
        \o (IF cfg.includeCssPath /\ ed.cssPath # ""
            THEN <<Strategy("css", ed.cssPath, 25, 80)>>
            ELSE <<>>)

\* the strategies of the customAttributes.forEach callback, index zero-based
RECURSIVE CustomAttributeStrategies(_, _, _)
CustomAttributeStrategies(customAttributes, index, attributes) ==
    IF index >= Len(customAttributes) THEN <<>>
    ELSE LET attr == customAttributes[index + 1]
         IN  (IF Truthy(Attr(attributes, attr))
              THEN <<Strategy("css", AttrSelector(attr, attributes), 26 + index, 60)>>
              ELSE <<>>)
             \o CustomAttributeStrategies(customAttributes, index + 1, attributes)

\* Priority 26-30: Attribute combinations
addAttributeCombinationStrategies(cfg, ed) ==
    CustomAttributeStrategies(cfg.customAttributes, 0, ed.attributes)
    \o (IF Truthy(Attr(ed.attributes, "value")) /\ ed.tagName \in {"input", "button"}
        THEN <<Strategy("css", ed.tagName \o AttrSelector("value", ed.attributes), 28, 60)>>
        ELSE <<>>)
    \o (IF Truthy(Attr(ed.attributes, "href")) /\ ed.tagName = "a"
        THEN <<Strategy("css", "a" \o AttrSelector("href", ed.attributes), 29, 65)>>
        ELSE <<>>)
    \o (IF Truthy(Attr(ed.attributes, "src")) /\ ed.tagName \in {"img", "iframe"}
        THEN <<Strategy("css", ed.tagName \o AttrSelector("src", ed.attributes), 30, 60)>>
        ELSE <<>>)

\* Priority 31-35: Fallback strategies
addFallbackStrategies(cfg, ed) ==
    (IF cfg.includeXPath /\ ed.xpath # ""
     THEN <<Strategy("xpath", ed.xpath, 31, 90)>>
     ELSE <<>>)
    \o (IF cfg.fallbackToPosition
        THEN <<Strategy("xpath",
                        "//*[@data-locatorpro-x=\"" \o ToString(MathRound2(ed.position.x2))
                        \o "\" and @data-locatorpro-y=\""
                        \o ToString(MathRound2(ed.position.y2)) \o "\"]",
                        35, 30)>>
        ELSE <<>>)

NonEmptySelector(s) == Len(s.selector) > 0

generateAllStrategies(cfg, ed) ==
    Filter(addTestAttributeStrategies(ed)
           \o addSemanticStrategies(ed)
           \o addRoleStrategies(ed)
           \o addTextStrategies(ed)
           \o addStructureStrategies(cfg, ed)
           \o addAttributeCombinationStrategies(cfg, ed)
           \o addFallbackStrategies(cfg, ed),
           NonEmptySelector)

\* the sort of generateSelectors without its slice
SortOnly(cfg, strategies) == SortByPriority(strategies)

\* the sort and slice of generateSelectors
SortAndSlice(cfg, strategies) == Slice0(SortByPriority(strategies), cfg.maxStrategies)

----------------------------------------------------------------------------
(* LocatorEngine: validation, primary selection, confidence *)

MatchLimit == 5

\* /^(\w+):has-text\("([^"]+)"\)$/ matches the selector
HasTextMatch(selector) ==
    \E i \in 1..Len(selector) :
        LET open == ":has-text(\""
            rest == SubSeq(selector, i + 1, Len(selector))
            text == SubSeq(rest, Len(open) + 1, Len(rest) - 2)
        IN  /\ Word1(SubSeq(selector, 1, i))
            /\ StartsWith(rest, open)
            /\ Len(rest) >= Len(open) + 3
            /\ SubSeq(rest, Len(rest) - 1, Len(rest)) = "\")"
            /\ \A j \in 1..Len(text) : CharAt(text, j) # "\""

\* a testStrategy whose catch block reports the strategy as matching one element
testStrategyErrorMatches(strategy, answer) ==
    IF answer = <<>> THEN [isValid |-> TRUE, uniqueMatches |-> 1, threw |-> TRUE]
    ELSE [isValid |-> answer[1] > 0, uniqueMatches |-> answer[1], threw |-> FALSE]

\* The document's answer to one query is <<n>> (n elements) or <<>> (the query
\* throws).  testStrategy asks the document only on the paths that reach it;
\* threw records that the query raised an error, which the catch block turns
\* into an invalid result.
testStrategy(strategy, answer) ==
    LET asked ==
            CASE strategy.type = "xpath" -> TRUE
              [] strategy.type = "text" ->
                    \/ StartsWith(strategy.selector, "text=")
                    \/ /\ Includes(strategy.selector, ":has-text(")
                       /\ HasTextMatch(strategy.selector)
              [] OTHER -> TRUE
        length == IF asked THEN (IF answer = <<>> THEN 0 ELSE answer[1]) ELSE 0
    IN  [isValid |-> length > 0, uniqueMatches |-> length,
         threw |-> asked /\ answer = <<>>]

\* strategy.isUnique = ... on the strategy object
SetIsUnique(strategy, b) == [isUnique |-> b] @@ strategy

\* a validation that drops nothing
validateAll(strategies, answers) ==
    [i \in 1..Len(strategies) |->
        SetIsUnique(strategies[i],
                    testStrategy(strategies[i], answers[i]).uniqueMatches = 1)]

\* a validation that finds the isUnique flags of the call before on the strategies
RECURSIVE validateStrategiesSticky(_, _)
validateStrategiesSticky(strategies, answers) ==
    IF strategies = <<>> THEN <<>>
    ELSE LET r == testStrategy(Head(strategies), Head(answers))
             strategy == SetIsUnique(Head(strategies),
                                     r.uniqueMatches = 1 \/ result.strategies # <<>>)
         IN  (IF r.isValid /\ r.uniqueMatches <= MatchLimit THEN <<strategy>> ELSE <<>>)
             \o validateStrategiesSticky(Tail(strategies), Tail(answers))

RECURSIVE validateStrategies(_, _)
validateStrategies(strategies, answers) ==
    IF strategies = <<>> THEN <<>>
    ELSE LET r == testStrategy(Head(strategies), Head(answers))
             strategy == SetIsUnique(Head(strategies), r.uniqueMatches = 1)
         IN  (IF r.isValid /\ r.uniqueMatches <= MatchLimit THEN <<strategy>> ELSE <<>>)
             \o validateStrategies(Tail(strategies), Tail(answers))

IsUniqueStrategy(s) == s.isUnique

\* a primary selection that ignores uniqueness
selectFirstStrategy(strategies) ==
    IF Len(strategies) = 0 THEN "" ELSE strategies[1].selector

selectPrimaryStrategy(strategies) ==
    IF Len(strategies) = 0 THEN ""
    ELSE LET uniqueStrategies == Filter(strategies, IsUniqueStrategy)
         IN  IF Len(uniqueStrategies) > 0 THEN uniqueStrategies[1].selector
             ELSE strategies[1].selector

\* a weight that ignores uniqueness
ConfidenceWeightFlat(strategy) == 1

\* weight and reliability of one strategy in calculateConfidence
ConfidenceWeight(strategy) == IF strategy.isUnique THEN 2 ELSE 1
ConfidenceReliability(strategy) ==
    IF strategy.reliability = 0 THEN 50 ELSE strategy.reliability

RECURSIVE TotalReliability(_)
TotalReliability(strategies) ==
    IF strategies = <<>> THEN 0
    ELSE ConfidenceReliability(Head(strategies)) * ConfidenceWeight(Head(strategies))
         + TotalReliability(Tail(strategies))

\* a weight sum that counts the strategies
WeightCount(strategies) == Len(strategies)

RECURSIVE WeightSum(_)
WeightSum(strategies) ==
    IF strategies = <<>> THEN 0
    ELSE ConfidenceWeight(Head(strategies)) + WeightSum(Tail(strategies))

\* a confidence that is the lowest reliability of the list
calculateConfidenceWeakest(strategies) ==
    IF Len(strategies) = 0 THEN [num |-> 0, den |-> 1]
    ELSE LET all == { strategies[i].reliability : i \in 1..Len(strategies) }
         IN  [num |-> CHOOSE r \in all : \A q \in all : r <= q, den |-> 1]

\* The confidence is the fraction num / den of hundredths: num / den = 95 is 0.95.
calculateConfidence(strategies) ==
    IF Len(strategies) = 0 THEN [num |-> 0, den |-> 1]
    ELSE IF WeightSum(strategies) > 0
         THEN [num |-> TotalReliability(strategies), den |-> WeightSum(strategies)]
         ELSE [num |-> 0, den |-> 1]

\* generateSelectors, with the document's answers to the queries of validation
generateSelectors(cfg, el, answers) ==
    LET ed == captureElementData(el)
        strategies == generateAllStrategies(cfg, ed)
        sortedStrategies == SortAndSlice(cfg, strategies)
        validatedStrategies == validateStrategies(sortedStrategies, answers)
    IN  [ strategies |-> validatedStrategies,
          primarySelector |-> selectPrimaryStrategy(validatedStrategies),
          confidence |-> calculateConfidence(validatedStrategies),
          elementData |-> ed ]

----------------------------------------------------------------------------
(* LocatorEngine: construction *)

DefaultMaxStrategies == 10

\* new LocatorEngine(config): every absent option (<<>>) takes its default
LocatorEngineConfig(maxStrategies, includeXPath, includeCssPath, fallbackToPosition, customAttributes) ==
    [ maxStrategies |-> IF maxStrategies = <<>> THEN DefaultMaxStrategies
                        ELSE maxStrategies[1],
      includeXPath |-> IF includeXPath = <<>> THEN TRUE ELSE includeXPath[1],
      includeCssPath |-> IF includeCssPath = <<>> THEN TRUE ELSE includeCssPath[1],
      prioritizeTestAttributes |-> TRUE,
      fallbackToPosition |-> IF fallbackToPosition = <<>> THEN FALSE
                             ELSE fallbackToPosition[1],
      customAttributes |-> IF customAttributes = <<>> THEN <<>>
                           ELSE customAttributes[1] ]

----------------------------------------------------------------------------
(* The inputs the specifications draw from *)

MaxStrategiesBound == 2      \* maxStrategies is drawn from 0..MaxStrategiesBound or absent
MaxCustomAttributes == 1     \* longest customAttributes list
MaxSiblings == 1             \* most preceding siblings with the element's tag
MaxPeriod == 4               \* the document's answers repeat with at most this period

NoAttributes == [n \in {} |-> ""]

AttributeBags ==
    { NoAttributes,
      ("data-testid" :> "submit-button"),
      ("data-testid" :> ""),
      ("data-qa" :> "go") @@ ("data-test" :> "go") @@ ("test-id" :> "t1"),
      ("aria-label" :> "Submit the form") @@ ("name" :> "send") @@ ("type" :> "submit")
          @@ ("placeholder" :> "Enter") @@ ("value" :> "Go"),
      ("role" :> "button") @@ ("href" :> "/home") @@ ("data-automation" :> "go")
          @@ ("aria-labelledby" :> "lbl") @@ ("for" :> "f1") @@ ("alt" :> "logo")
          @@ ("src" :> "/a.png") }

TagNames == {"BUTTON", "INPUT", "A"}
ElementIds == {"", "submit-btn", "QA-login"}
\* className and textContent of the sampled elements
ElementContents ==
    { [className |-> "", textContent |-> ""],
      [className |-> "p-4 text-lg submit-button", textContent |-> " Submit "],
      [className |-> "btn primary", textContent |-> "Submit Form Now"] }
CustomAttributeNames == {"data-qa", "data-automation"}

\* the ancestors of every element but the root
AncestorPath ==
    << [tagName |-> "FORM", id |-> "", prev |-> <<"DIV", "FORM">>],
       [tagName |-> "BODY", id |-> "", prev |-> <<"HEAD">>],
       [tagName |-> "HTML", id |-> "", prev |-> <<>>] >>

MakeElement(tagName, id, className, textContent, bag, siblings) ==
    [ path |-> << [tagName |-> tagName, id |-> id,
                   prev |-> [i \in 1..siblings |-> tagName] \o <<"DIV">>] >>
               \o AncestorPath,
      attributes |-> bag @@ (IF id = "" THEN NoAttributes ELSE ("id" :> id))
                         @@ (IF className = "" THEN NoAttributes ELSE ("class" :> className)),
      textContent |-> textContent,
      x2 |-> 201, y2 |-> 400 ]

\* the document element itself
RootElement ==
    [ path |-> << [tagName |-> "HTML", id |-> "", prev |-> <<>>] >>,
      attributes |-> NoAttributes, textContent |-> "Submit", x2 |-> 0, y2 |-> 0 ]

\* the item of a list that follows n other items and a heading
ListItem(n) ==
    [ path |-> << [tagName |-> "LI", id |-> "",
                   prev |-> [i \in 1..n |-> "LI"] \o <<"H2">>],
                  [tagName |-> "UL", id |-> "", prev |-> <<"UL", "P">>],
                  [tagName |-> "BODY", id |-> "", prev |-> <<"HEAD">>],
                  [tagName |-> "HTML", id |-> "", prev |-> <<>>] >>,
      attributes |-> NoAttributes, textContent |-> "Second", x2 |-> 40, y2 |-> 81 ]

\* class lists: utility classes only, doubled spaces, utility classes first
ClassLists ==
    { "p-4 flex", "flex  card text-lg", "bg-blue-500 header-nav form-control",
      " w-10 mt-2 text-2xl border-red abc123 Card" }

AllElements ==
    { MakeElement(t, i, c.className, c.textContent, b, n) :
        t \in TagNames, i \in ElementIds, c \in ElementContents,
        b \in AttributeBags, n \in {0, MaxSiblings} }
    \cup { ListItem(n) : n \in 0..MaxSiblings }
    \cup { MakeElement("BUTTON", "", c, "", NoAttributes, 0) : c \in ClassLists }
    \cup {RootElement}

\* the elements of the specification that varies the document's answers
FewElements ==
    { MakeElement("BUTTON", i, c.className, c.textContent, b, 0) :
        i \in {"", "submit-btn"},
        c \in {x \in ElementContents : Len(x.textContent) > 10},
        b \in {NoAttributes, ("data-testid" :> "submit-button")} }

SeqsUpTo(S, n) == UNION { [1..m -> S] : m \in 0..n }

\* a customAttributes list of six names, the element's attribute last
LongCustomAttributes == <<"data-a", "data-b", "data-c", "data-d", "data-e", "data-qa">>

AllConfigs ==
    { LocatorEngineConfig(k, xp, cp, fp, ca) :
        k \in {<<>>} \cup { <<n>> : n \in 0..MaxStrategiesBound },
        xp \in {<<>>, <<FALSE>>}, cp \in {<<>>, <<FALSE>>}, fp \in {<<>>, <<TRUE>>},
        ca \in { <<c>> : c \in SeqsUpTo(CustomAttributeNames, MaxCustomAttributes) } }
    \cup { LocatorEngineConfig(<<>>, <<>>, <<>>, <<>>, <<LongCustomAttributes>>) }

\* what the document answers to a query: it throws, or it returns n elements
Answers == {<<>>, <<0>>, <<1>>, <<MatchLimit>>, <<MatchLimit + 1>>}

\* the answers to the queries of a list of strategies, repeating a pattern
AnswersFor(strategies, pattern) ==
    [i \in 1..Len(strategies) |-> pattern[((i - 1) % Len(pattern)) + 1]]

Patterns(period) == UNION { [1..m -> Answers] : m \in 1..period }

\* the document that answers every query with one element
UniformPatterns == { <<a>> : a \in {<<1>>} }

\* the configurations of the specification that varies the document's answers
FewConfigs ==
    { LocatorEngineConfig(k, <<>>, <<>>, <<>>, <<>>) :
        k \in {<<>>} \cup { <<n>> : n \in 0..MaxStrategiesBound } }

----------------------------------------------------------------------------
(* The engine: one instance, any number of generateSelectors calls *)

NoResult == [strategies |-> <<>>, primarySelector |-> "", confidence |-> [num |-> 0, den |-> 1]]

\* no SmartLocator options, no finder call, no outcome
NoOptions == [maxStrategies |-> <<>>]
NoCall == [name |-> "", args |-> <<>>]
NoOutcome == [threw |-> FALSE, message |-> "", built |-> FALSE, given |-> <<>>,
              parts |-> <<>>, node |-> 0]

EngineInit(configs) ==
    /\ pc = "constructed"
    /\ config \in configs
    /\ element = RootElement
    /\ elementData = captureElementData(RootElement)
    /\ generated = <<>>
    /\ sorted = <<>>
    /\ matches = <<>>
    /\ errors = {}
    /\ result = NoResult
    /\ again = NoResult
    /\ options = NoOptions
    /\ page = <<>>
    /\ finder = NoCall
    /\ outcome = NoOutcome
    /\ calls = <<>>

\* generateSelectors(element), the document answering by the pattern
GenerateSelectors(el, pattern) ==
    /\ pc = "constructed"
    /\ \E ed \in {captureElementData(el)} :
       \E strategies \in {generateAllStrategies(config, ed)} :
       \E sortedStrategies \in {SortAndSlice(config, strategies)} :
       \E answers \in {AnswersFor(sortedStrategies, pattern)} :
       \E validatedStrategies \in {validateStrategies(sortedStrategies, answers)} :
          /\ pc' = "generateSelectors"
          /\ element' = el
          /\ elementData' = ed
          /\ generated' = strategies
          /\ sorted' = sortedStrategies
          /\ matches' = [i \in 1..Len(sortedStrategies) |->
                            testStrategy(sortedStrategies[i], answers[i]).uniqueMatches]
          /\ errors' = { i \in 1..Len(sortedStrategies) :
                            testStrategy(sortedStrategies[i], answers[i]).threw }
          /\ result' = [strategies |-> validatedStrategies,
                        primarySelector |-> selectPrimaryStrategy(validatedStrategies),
                        confidence |-> calculateConfidence(validatedStrategies)]
          /\ again' = NoResult
          /\ UNCHANGED <<config, smartVars>>

\* the call returns and the caller drops the result; the engine keeps its config
Return ==
    /\ pc = "generateSelectors"
    /\ pc' = "constructed"
    /\ element' = RootElement
    /\ elementData' = captureElementData(RootElement)
    /\ generated' = <<>>
    /\ sorted' = <<>>
    /\ matches' = <<>>
    /\ errors' = {}
    /\ result' = NoResult
    /\ again' = NoResult
    /\ UNCHANGED <<config, smartVars>>

\* every sampled element and configuration, the document answering uniformly
GenNext ==
    \/ \E el \in AllElements, pattern \in UniformPatterns : GenerateSelectors(el, pattern)
    \/ Return

SpecGen == EngineInit(AllConfigs) /\ [][GenNext]_vars

\* few elements and configurations, the document answering in every pattern
Next ==
    \/ \E el \in FewElements, pattern \in Patterns(MaxPeriod) : GenerateSelectors(el, pattern)
    \/ Return

Spec == EngineInit(FewConfigs) /\ [][Next]_vars

\* what the document answered to the queries of the call in progress
SameAnswers == [i \in 1..Len(matches) |-> <<matches[i]>>]

\* generateSelectors(element) once more: same engine, same element, same document
GenerateSelectorsAgain ==
    /\ pc = "generateSelectors"
    /\ \E second \in {generateSelectors(config, element, SameAnswers)} :
          /\ pc' = "generateSelectorsAgain"
          /\ again' = [strategies |-> second.strategies,
                       primarySelector |-> second.primarySelector,
                       confidence |-> second.confidence]
          /\ UNCHANGED <<config, element, elementData, generated, sorted, matches,
                         errors, result, smartVars>>

\* the second call returns
ReturnAgain ==
    /\ pc = "generateSelectorsAgain"
    /\ pc' = "constructed"
    /\ element' = RootElement
    /\ elementData' = captureElementData(RootElement)
    /\ generated' = <<>>
    /\ sorted' = <<>>
    /\ matches' = <<>>
    /\ errors' = {}
    /\ result' = NoResult
    /\ again' = NoResult
    /\ UNCHANGED <<config, smartVars>>

\* every call of the engine is made twice
TwiceNext ==
    \/ \E el \in FewElements, pattern \in Patterns(MaxPeriod) : GenerateSelectors(el, pattern)
    \/ GenerateSelectorsAgain
    \/ ReturnAgain

SpecTwice == EngineInit(FewConfigs) /\ [][TwiceNext]_vars

----------------------------------------------------------------------------
(* The page seen by SmartLocator: the list of the document's elements in    *)
(* document order.  An element is a record                                  *)
(*   [tagName, id, className, attributes, parent, text, width, height,      *)
(*    offsetParent]                                                         *)
(* where parent is the index of the parentElement (0 for the root), text is *)
(* the element's own text node, placed before its child elements, and       *)
(* width and height are those of getBoundingClientRect.  Every text is      *)
(* rendered, so innerText equals textContent.                               *)

DomNode(tagName, id, className, bag, parent, ownText, width, height) ==
    [ tagName |-> tagName, id |-> id, className |-> className,
      attributes |-> bag @@ (IF id = "" THEN NoAttributes ELSE ("id" :> id))
                         @@ (IF className = "" THEN NoAttributes
                             ELSE ("class" :> className)),
      parent |-> parent, text |-> ownText, width |-> width, height |-> height,
      offsetParent |-> width > 0 /\ height > 0 /\ tagName \notin {"HTML", "BODY"} ]

\* n is a descendant of a
RECURSIVE IsInside(_, _, _)
IsInside(doc, n, a) ==
    doc[n].parent # 0 /\ (doc[n].parent = a \/ IsInside(doc, doc[n].parent, a))

\* document.querySelectorAll('*')
AllNodes(doc) == [i \in 1..Len(doc) |-> i]

\* el.querySelectorAll('*')
QuerySelectorAll(doc, a) == SelectSeq(AllNodes(doc), LAMBDA n : IsInside(doc, n, a))

RECURSIVE RawTextFrom(_, _, _)
RawTextFrom(doc, a, n) ==
    IF n > Len(doc) THEN ""
    ELSE (IF n = a \/ IsInside(doc, n, a) THEN doc[n].text ELSE "")
         \o RawTextFrom(doc, a, n + 1)

\* el.textContent?.trim() || ''
TextContent(doc, a) == Trim(RawTextFrom(doc, a, a))

\* el.getAttribute(name) || ''
GetAttribute(node, name) ==
    IF name \in DOMAIN node.attributes THEN node.attributes[name] ELSE ""

\* (el as HTMLInputElement).value || ''
ValueProperty(node) ==
    IF node.tagName \in {"INPUT", "BUTTON", "SELECT", "TEXTAREA", "OPTION"}
    THEN GetAttribute(node, "value") ELSE ""

\* el.hasAttribute(name)
HasAttribute(node, name) == name \in DOMAIN node.attributes

RECURSIVE Flatten(_)
Flatten(ss) == IF ss = <<>> THEN <<>> ELSE Head(ss) \o Flatten(Tail(ss))

\* a number "n || d": 0 and undefined are falsy
OrDefault(o, d) == IF o = <<>> \/ o[1] = 0 THEN d ELSE o[1]

\* s[a..b], one-based and inclusive, cut at the end of s
SubStr(s, a, b) == IF a > b \/ a > Len(s) THEN "" ELSE SubSeq(s, a, Min(b, Len(s)))

\* index of the first c in s at or after from, 0 if there is none
FirstIndexOf(s, c, from) ==
    IF \E i \in from..Len(s) : CharAt(s, i) = c
    THEN CHOOSE i \in from..Len(s) :
            CharAt(s, i) = c /\ \A k \in from..(i - 1) : CharAt(s, k) # c
    ELSE 0

\* the capture of prefix([^d]+)suffix at position i of s, suffix starting with
\* the delimiter d; <<>> if the pattern does not match there
DelimitedAt(s, prefix, d, suffix, i) ==
    LET start == i + Len(prefix)
        q == FirstIndexOf(s, d, start)
    IN  IF /\ SubStr(s, i, start - 1) = prefix
           /\ q > start
           /\ SubStr(s, q, q + Len(suffix) - 1) = suffix
        THEN <<SubStr(s, start, q - 1)>>
        ELSE <<>>

\* s.match(/prefix([^d]+)suffix/)?.[1]
MatchDelimited(s, prefix, d, suffix) ==
    LET hits == {i \in 1..Len(s) : DelimitedAt(s, prefix, d, suffix, i) # <<>>}
    IN  IF hits = {} THEN <<>>
        ELSE DelimitedAt(s, prefix, d, suffix,
                         CHOOSE i \in hits : \A j \in hits : i <= j)

\* number of non-overlapping occurrences of the literal t in s:
\* (s.match(new RegExp(t, 'g')) || []).length for a t without metacharacters
RECURSIVE CountOccurrences(_, _)
CountOccurrences(s, t) ==
    IF t = "" THEN Len(s) + 1
    ELSE IF ~Includes(s, t) THEN 0
    ELSE LET i == CHOOSE j \in 1..Len(s) :
                    /\ SubStr(s, j, j + Len(t) - 1) = t
                    /\ \A k \in 1..(j - 1) : SubStr(s, k, k + Len(t) - 1) # t
         IN  1 + CountOccurrences(SubStr(s, i + Len(t), Len(s)), t)

\* an insertion that puts an element before those of equal score
RECURSIVE InsertBeforeEqualScore(_, _)
InsertBeforeEqualScore(s, x) ==
    IF s = <<>> THEN <<x>>
    ELSE IF x.score >= Head(s).score THEN <<x>> \o s
    ELSE <<Head(s)>> \o InsertBeforeEqualScore(Tail(s), x)

\* Array.prototype.sort((a, b) => b.score - a.score): a stable sort
RECURSIVE InsertByScore(_, _)
InsertByScore(s, x) ==
    IF s = <<>> THEN <<x>>
    ELSE IF x.score > Head(s).score THEN <<x>> \o s
    ELSE <<Head(s)>> \o InsertByScore(Tail(s), x)

RECURSIVE SortByScore(_)
SortByScore(s) ==
    IF s = <<>> THEN <<>>
    ELSE InsertByScore(SortByScore(SubSeq(s, 1, Len(s) - 1)), s[Len(s)])

----------------------------------------------------------------------------
(* SmartLocator: the composite locator *)

\* a Playwright locator, by the page method that makes it and its argument
PageLocator(method, argument) == [method |-> method, argument |-> argument]

createLocatorForStrategy(strategy) ==
    CASE strategy.type = "id" -> PageLocator("locator", strategy.selector)
      [] strategy.type = "data-testid" ->
            LET testId == MatchDelimited(strategy.selector, "data-testid=\"", "\"", "\"")
            IN  IF StartsWith(strategy.selector, "[data-testid=") /\ testId # <<>>
                THEN PageLocator("getByTestId", testId[1])
                ELSE PageLocator("locator", strategy.selector)
      [] strategy.type = "text" ->
            IF StartsWith(strategy.selector, "text=")
            THEN PageLocator("getByText", Substring(strategy.selector, 5, Len(strategy.selector)))
            ELSE PageLocator("getByText", strategy.selector)
      [] strategy.type = "role" ->
            LET roleMatch == MatchDelimited(strategy.selector, "[role=\"", "\"", "\"]")
            IN  IF roleMatch # <<>> THEN PageLocator("getByRole", roleMatch[1])
                ELSE PageLocator("locator", strategy.selector)
      [] strategy.type = "aria-label" ->
            LET labelMatch == MatchDelimited(strategy.selector, "[aria-label=\"", "\"", "\"]")
            IN  IF labelMatch # <<>> THEN PageLocator("getByLabel", labelMatch[1])
                ELSE PageLocator("locator", strategy.selector)
      [] strategy.type = "xpath" -> PageLocator("locator", "xpath=" \o strategy.selector)
      [] OTHER -> PageLocator("locator", strategy.selector)

\* An outcome records whether the call threw and with which message, whether
\* createSelfHealingLocator was reached (built) and with which strategies
\* (given), the locators or-ed into the composite (parts, primary first), and
\* the element of the page the strategies were derived from (node, 0 if none).
Threw(message) ==
    [threw |-> TRUE, message |-> message, built |-> FALSE, given |-> <<>>,
     parts |-> <<>>, node |-> 0]

\* a createSelfHealingLocator without the guard on the empty list, which or-s
\* nothing
createSelfHealingLocatorUnguarded(strategies, n) ==
    [threw |-> FALSE, message |-> "", built |-> TRUE, given |-> strategies,
     parts |-> [i \in 1..Len(strategies) |->
                   createLocatorForStrategy(SortByPriority(strategies)[i])],
     node |-> n]

\* a createSelfHealingLocator that fails on the empty list only when it reads
\* sortedStrategies[0]
createSelfHealingLocatorLate(strategies, n) ==
    IF Len(strategies) = 0
    THEN [threw |-> TRUE,
          message |-> "Cannot read properties of undefined (reading 'type')",
          built |-> TRUE, given |-> strategies, parts |-> <<>>, node |-> n]
    ELSE createSelfHealingLocatorUnguarded(strategies, n)

\* createSelfHealingLocator(strategies), the strategies derived from element n
createSelfHealingLocator(strategies, n) ==
    IF Len(strategies) = 0
    THEN [threw |-> TRUE, message |-> "No strategies available for locator",
          built |-> TRUE, given |-> strategies, parts |-> <<>>, node |-> n]
    ELSE LET sortedStrategies == SortByPriority(strategies)
         IN  [threw |-> FALSE, message |-> "", built |-> TRUE, given |-> strategies,
              parts |-> [i \in 1..Len(sortedStrategies) |->
                            createLocatorForStrategy(sortedStrategies[i])],
              node |-> n]

\* strategies.push({..., priority: priority++, ...}) with priority starting at 1
Push(list, type, selector, reliability) ==
    Append(list, Strategy(type, selector, Len(list) + 1, reliability))

\* list.push(strategy) if cond
PushIf(list, cond, strategy) == IF cond THEN Append(list, strategy) ELSE list

----------------------------------------------------------------------------
(* SmartLocator: findByVisibleText *)

SkippedTags == {"SCRIPT", "STYLE", "META", "LINK", "TITLE"}

\* attributes[name] of a scan result, '' standing for undefined
ResultAttr(el, name) == IF name \in DOMAIN el.attributes THEN el.attributes[name] ELSE ""

\* searchText and targetText match in one direction or the other, ignoring case
TextsMatch(searchText, targetText) ==
    \/ Includes(ToLowerCase(searchText), ToLowerCase(targetText))
    \/ Includes(ToLowerCase(targetText), ToLowerCase(searchText))

\* the results scanDomForText pushes for element n: one for each searchable
\* text that matches a variation (the break leaves the inner loop only)
ScanElement(doc, n, textVariations) ==
    LET el == doc[n]
        content == TextContent(doc, n)
        searchableTexts == << content, content, GetAttribute(el, "value"),
                              GetAttribute(el, "placeholder"),
                              GetAttribute(el, "aria-label"), GetAttribute(el, "title") >>
        Hits(searchText) == SelectSeq(textVariations, LAMBDA t : TextsMatch(searchText, t))
        Found(searchText, targetText) ==
            [ node |-> n,
              tagName |-> ToLowerCase(el.tagName),
              textContent |-> content,
              value |-> GetAttribute(el, "value"),
              id |-> el.id,
              className |-> el.className,
              attributes |-> el.attributes,
              isVisible |-> el.width > 0 /\ el.height > 0,
              isInteractive |-> \/ el.tagName \in {"BUTTON", "INPUT", "A", "SELECT", "TEXTAREA"}
                                \/ HasAttribute(el, "onclick") \/ HasAttribute(el, "role"),
              hasTestId |-> \/ HasAttribute(el, "data-testid") \/ HasAttribute(el, "data-test")
                            \/ HasAttribute(el, "data-qa"),
              matchedText |-> targetText,
              matchType |-> IF searchText = targetText THEN "exact" ELSE "partial",
              position |-> [width |-> el.width, height |-> el.height],
              score |-> 0 ]
    IN  Flatten([i \in 1..Len(searchableTexts) |->
                    IF Hits(searchableTexts[i]) = <<>> THEN <<>>
                    ELSE <<Found(searchableTexts[i], Hits(searchableTexts[i])[1])>>])

scanDomForText(doc, textVariations, elementTypes) ==
    Flatten([n \in 1..Len(doc) |->
        IF ~doc[n].offsetParent /\ doc[n].tagName \notin {"HTML", "BODY"} THEN <<>>
        ELSE IF doc[n].tagName \in SkippedTags THEN <<>>
        ELSE IF /\ Len(elementTypes) > 0
                /\ \A i \in 1..Len(elementTypes) :
                      elementTypes[i] # ToLowerCase(doc[n].tagName)
             THEN <<>>
        ELSE ScanElement(doc, n, textVariations)])

\* the score analyzeBestStrategies gives a scanned element
ElementScore(el) ==
    (IF el.isVisible THEN 30 ELSE 0)
    + (IF el.isInteractive THEN 25 ELSE 0)
    + (IF el.hasTestId THEN 40 ELSE 0)
    + (IF el.id # "" THEN 20 ELSE 0)
    + (IF el.matchType = "exact" THEN 15 ELSE 0)
    + (IF el.position.width > 20 /\ el.position.height > 10 THEN 10 ELSE 0)
    + (IF el.tagName \in {"button", "input", "a"} THEN 20 ELSE 0)
    - (IF el.position.width > 800 \/ el.position.height > 600 THEN 15 ELSE 0)

\* the strategies and the usedSelectors set of analyzeBestStrategies
PushUnique(acc, cond, key, type, selector, reliability) ==
    IF cond /\ key \notin acc.used
    THEN [strategies |-> Push(acc.strategies, type, selector, reliability),
          used |-> acc.used \cup {key}]
    ELSE acc

\* the fallback loop over scoredElements[i], i zero-based
RECURSIVE FallbackStrategies(_, _, _)
FallbackStrategies(acc, scoredElements, i) ==
    IF i >= Min(Len(scoredElements), 3) THEN acc
    ELSE LET el == scoredElements[i + 1]
             testIdSelector == "[data-testid=\"" \o ResultAttr(el, "data-testid") \o "\"]"
             a1 == PushUnique(acc, ResultAttr(el, "data-testid") # "", testIdSelector,
                              "data-testid", testIdSelector, 90)
             a2 == PushUnique(a1, el.id # "", "#" \o el.id, "id", "#" \o el.id, 85)
         IN  FallbackStrategies(a2, scoredElements, i + 1)

DefaultSmartMaxStrategies == 5

\* scoredElements of analyzeBestStrategies
ScoredElements(domElements) ==
    SortByScore([i \in 1..Len(domElements) |->
                    [domElements[i] EXCEPT !.score = ElementScore(domElements[i])]])

analyzeBestStrategies(opts, domElements) ==
    LET scoredElements == ScoredElements(domElements)
        bestElement == scoredElements[1]
        trimmed == Trim(bestElement.textContent)
        a0 == [strategies |-> <<>>, used |-> {}]
        a1 == PushUnique(a0, Len(trimmed) > 0 /\ Len(trimmed) < 100,
                         "getByText:" \o trimmed, "text", trimmed, 95)
        testIdSelector == "[data-testid=\"" \o ResultAttr(bestElement, "data-testid") \o "\"]"
        a2 == PushUnique(a1, ResultAttr(bestElement, "data-testid") # "", testIdSelector,
                         "data-testid", testIdSelector, 90)
        testSelector == "[data-test=\"" \o ResultAttr(bestElement, "data-test") \o "\"]"
        a3 == PushUnique(a2, ResultAttr(bestElement, "data-test") # "", testSelector,
                         "css", testSelector, 90)
        a4 == PushUnique(a3, bestElement.id # "", "#" \o bestElement.id,
                         "id", "#" \o bestElement.id, 90)
        typeName == "input[type=\"" \o ResultAttr(bestElement, "type") \o "\"][name=\""
                    \o ResultAttr(bestElement, "name") \o "\"]"
        a5 == PushUnique(a4, /\ bestElement.tagName = "input"
                             /\ ResultAttr(bestElement, "type") # ""
                             /\ ResultAttr(bestElement, "name") # "",
                         typeName, "css", typeName, 85)
        byValue == "input[value=\"" \o bestElement.value \o "\"]"
        a6 == PushUnique(a5, bestElement.tagName = "input" /\ bestElement.value # "",
                         byValue, "css", byValue, 80)
        byPlaceholder == "input[placeholder=\"" \o ResultAttr(bestElement, "placeholder") \o "\"]"
        a7 == PushUnique(a6, /\ bestElement.tagName = "input"
                             /\ ResultAttr(bestElement, "placeholder") # "",
                         byPlaceholder, "css", byPlaceholder, 75)
        classes == Filter(SplitSpace(bestElement.className), LAMBDA cls : Len(cls) > 0)
        byClass == "." \o JoinWith(classes, ".")
        a8 == PushUnique(a7, /\ bestElement.className # ""
                             /\ Len(SplitSpace(bestElement.className)) <= 2,
                         byClass, "css", byClass, 60)
        a9 == IF Len(a8.strategies) < 3 THEN FallbackStrategies(a8, scoredElements, 1)
              ELSE a8
        maxStrategies == OrDefault(opts.maxStrategies, DefaultSmartMaxStrategies)
    IN  Slice0(a9.strategies, maxStrategies)

\* fallbacks and elementTypes are absent (<<>>) or one list (<<list>>)
findByVisibleText(doc, opts, searched, fallbacks, elementTypes) ==
    LET textVariations == <<searched>> \o (IF fallbacks = <<>> THEN <<>> ELSE fallbacks[1])
        domScanResults == scanDomForText(doc, textVariations,
                              IF elementTypes = <<>> THEN <<>> ELSE elementTypes[1])
    IN  IF Len(domScanResults) = 0
        THEN Threw("No elements found for text variations: "
                   \o JoinWith(textVariations, ", "))
        ELSE createSelfHealingLocator(analyzeBestStrategies(opts, domScanResults),
                                      ScoredElements(domScanResults)[1].node)

----------------------------------------------------------------------------
(* SmartLocator: findByText, findByRole, findByTestId, findBySelector *)

generateStrategiesForText(t) ==
    << Strategy("xpath", "//div[normalize-space(text())=\"" \o t
                         \o "\" and not(descendant::*[text()])]", 1, 90),
       Strategy("xpath", "//span[normalize-space(text())=\"" \o t
                         \o "\" and not(descendant::*[text()])]", 2, 90),
       Strategy("css", "div.login_logo:has-text(\"" \o t \o "\")", 3, 85),
       Strategy("xpath", "//div[text()=\"" \o t \o "\"]", 4, 80),
       Strategy("xpath", "//span[text()=\"" \o t \o "\"]", 5, 80),
       Strategy("text", t, 6, 60) >>

findByText(searched, fallbacks) ==
    LET textVariations == <<searched>> \o (IF fallbacks = <<>> THEN <<>> ELSE fallbacks[1])
        allStrategies == Flatten([i \in 1..Len(textVariations) |->
                                     generateStrategiesForText(textVariations[i])])
    IN  createSelfHealingLocator(allStrategies, 0)

\* page.locator(selector).first().elementHandle(): the document decides what
\* the selector resolves to.  handle = -1: the call throws; 0: null; n > 0:
\* element n of the page.
generateStrategiesForSelector(doc, initialSelector, handle) ==
    IF handle = -1 THEN <<Strategy("css", initialSelector, 1, 30)>>
    ELSE IF handle = 0 THEN <<Strategy("css", initialSelector, 1, 50)>>
    ELSE LET el == doc[handle]
             content == TextContent(doc, handle)
             classes == Filter(SplitSpace(el.className), LAMBDA cls : Len(cls) > 0)
             s1 == <<Strategy("css", initialSelector, 1, 70)>>
             s2 == PushIf(s1, el.id # "", Strategy("id", "#" \o el.id, 2, 90))
             s3 == PushIf(s2, GetAttribute(el, "data-testid") # "",
                          Strategy("data-testid",
                                   "[data-testid=\"" \o GetAttribute(el, "data-testid") \o "\"]",
                                   1, 95))
             s4 == PushIf(s3, content # "" /\ Len(content) < 50,
                          Strategy("text", content, 5, 70))
             s5 == PushIf(s4, el.className # "" /\ Len(classes) > 0,
                          Strategy("css", "." \o (IF classes = <<>> THEN "" ELSE classes[1]),
                                   6, 50))
         IN  SortByPriority(s5)

\* name is absent (<<>>) or <<name>>
findByRole(doc, role, name, handle) ==
    LET selector == IF Truthy(name)
                    THEN "[role=\"" \o role \o "\"][aria-label=\"" \o name[1] \o "\"]"
                    ELSE "[role=\"" \o role \o "\"]"
    IN  createSelfHealingLocator(generateStrategiesForSelector(doc, selector, handle),
                                 Max(handle, 0))

findByTestId(testId) ==
    createSelfHealingLocator(
        << Strategy("css", "[data-testid=\"" \o testId \o "\"]", 1, 95),
           Strategy("css", "[data-test=\"" \o testId \o "\"]", 2, 95),
           Strategy("css", "[data-qa=\"" \o testId \o "\"]", 3, 90),
           Strategy("id", "#" \o testId, 4, 80),
           Strategy("css", "." \o testId, 5, 60) >>, 0)

findBySelector(doc, selector, handle) ==
    createSelfHealingLocator(generateStrategiesForSelector(doc, selector, handle),
                             Max(handle, 0))

\* validateLocator(locator): count is what locator.count() resolves to, <<>> if
\* it throws
validateLocator(count) == IF count = <<>> THEN FALSE ELSE count[1] > 0

\* the indices of s in increasing order
RECURSIVE Increasing(_)
Increasing(S) ==
    IF S = {} THEN <<>>
    ELSE LET least == CHOOSE i \in S : \A j \in S : i <= j
         IN  <<least>> \o Increasing(S \ {least})

\* getDebugInfo(selector): counts[i] is what the locator of strategy i counts.
\* The result is kept in the shape of a finder outcome, given being strategies.
getDebugInfo(doc, selector, handle, counts) ==
    LET strategies == generateStrategiesForSelector(doc, selector, handle)
        valid == Increasing({ i \in 1..Len(strategies) : validateLocator(counts[i]) })
        validStrategies == [k \in 1..Len(valid) |-> SetIsUnique(strategies[valid[k]], TRUE)]
    IN  [threw |-> FALSE, message |-> "", built |-> FALSE, given |-> strategies,
         parts |-> <<>>, node |-> Max(handle, 0),
         validStrategies |-> validStrategies,
         recommended |->
             IF Len(validStrategies) > 0 /\ validStrategies[1].selector # ""
             THEN validStrategies[1].selector
             ELSE IF Len(strategies) > 0 /\ strategies[1].selector # ""
             THEN strategies[1].selector
             ELSE selector]

----------------------------------------------------------------------------
(* SmartLocator: enhanceLocator, autoEnhance *)

\* locatorStr is locator.toString(), or <<>> if that throws
extractSelectorFromLocator(locatorStr) ==
    IF locatorStr = <<>> THEN "unknown-selector"
    ELSE LET str == locatorStr[1]
             byLocator == MatchDelimited(str, "locator('", "'", "')")
             byTestId == MatchDelimited(str, "getByTestId('", "'", "')")
             byText == MatchDelimited(str, "getByText('", "'", "')")
             byRole == MatchDelimited(str, "getByRole('", "'", "')")
         IN  IF Includes(str, "locator(") /\ byLocator # <<>> THEN byLocator[1]
             ELSE IF Includes(str, "getByTestId(") /\ byTestId # <<>>
                  THEN "[data-testid=\"" \o byTestId[1] \o "\"]"
             ELSE IF Includes(str, "getByText(") /\ byText # <<>> THEN byText[1]
             ELSE IF Includes(str, "getByRole(") /\ byRole # <<>>
                  THEN "[role=\"" \o byRole[1] \o "\"]"
             ELSE str

enhanceWorkingLocator(doc, n, originalSelector) ==
    LET el == doc[n]
        content == TextContent(doc, n)
        s1 == Push(<<>>, "css", originalSelector, 70)
        s2 == IF el.id # "" THEN Push(s1, "id", "#" \o el.id, 90) ELSE s1
        s3 == IF GetAttribute(el, "data-testid") # ""
              THEN Push(s2, "data-testid",
                        "[data-testid=\"" \o GetAttribute(el, "data-testid") \o "\"]", 95)
              ELSE s2
        s4 == IF GetAttribute(el, "data-test") # ""
              THEN Push(s3, "css",
                        "[data-test=\"" \o GetAttribute(el, "data-test") \o "\"]", 95)
              ELSE s3
        s5 == IF content # "" /\ Len(content) < 50 THEN Push(s4, "text", content, 80)
              ELSE s4
        s6 == IF ToLowerCase(el.tagName) = "input" /\ ValueProperty(el) # ""
              THEN Push(s5, "css", "input[value=\"" \o ValueProperty(el) \o "\"]", 75)
              ELSE s5
        s7 == IF GetAttribute(el, "name") # ""
              THEN Push(s6, "css", "[name=\"" \o GetAttribute(el, "name") \o "\"]", 80)
              ELSE s6
    IN  createSelfHealingLocator(s7, n)

\* idName.replace(/[-_]\d+$/, '')
StripTrailingNumber(idName) ==
    IF \E k \in 1..Len(idName) :
          CharAt(idName, k) \in {"-", "_"} /\ Digits1(SubSeq(idName, k + 1, Len(idName)))
    THEN LET k == CHOOSE j \in 1..Len(idName) :
                    /\ CharAt(idName, j) \in {"-", "_"}
                    /\ Digits1(SubSeq(idName, j + 1, Len(idName)))
         IN  SubSeq(idName, 1, k - 1)
    ELSE idName

\* the length of the longest prefix of s[from..] without a character of stop
RECURSIVE RunLength(_, _, _)
RunLength(s, from, stop) ==
    IF from > Len(s) \/ CharAt(s, from) \in stop THEN 0
    ELSE 1 + RunLength(s, from + 1, stop)

\* attrValue of /data-([^=\]]+)="?([^"\]]+)"?/ matched at position i, or <<>>
DataMatchAt(s, i) ==
    LET nameStart == i + 5
        nameLen == RunLength(s, nameStart, {"=", "]"})
        eq == nameStart + nameLen
        valueStart == IF SubStr(s, eq + 1, eq + 1) = "\"" THEN eq + 2 ELSE eq + 1
        valueLen == RunLength(s, valueStart, {"\"", "]"})
    IN  IF /\ SubStr(s, i, nameStart - 1) = "data-"
           /\ nameLen > 0
           /\ eq <= Len(s) /\ SubStr(s, eq, eq) = "="
           /\ valueLen > 0
        THEN <<SubStr(s, valueStart, valueStart + valueLen - 1)>>
        ELSE <<>>

DataMatch(s) ==
    LET hits == {i \in 1..Len(s) : DataMatchAt(s, i) # <<>>}
    IN  IF hits = {} THEN <<>>
        ELSE DataMatchAt(s, CHOOSE i \in hits : \A j \in hits : i <= j)

HasSelector(list, selector) == \E i \in 1..Len(list) : list[i].selector = selector

enhanceBrokenLocator(originalSelector) ==
    LET s0 == Push(<<>>, "css", originalSelector, 30)
        idName == Substring(originalSelector, 1, Len(originalSelector))
        baseId == StripTrailingNumber(idName)
        byId1 == IF Includes(idName, "submit")
                 THEN Push(Push(Push(s0, "text", "Submit", 80),
                                "css", "button[type=\"submit\"]", 75),
                           "css", "input[type=\"submit\"]", 70)
                 ELSE s0
        byId == IF baseId # idName
                THEN Push(byId1, "css", "[id^=\"" \o baseId \o "\"]", 60)
                ELSE byId1
        byClass == Push(s0, "css", "[class*=\"" \o idName \o "\"]", 50)
        dataMatch == DataMatch(originalSelector)
        byData == IF dataMatch # <<>>
                  THEN Push(Push(s0, "css", "[data-testid=\"" \o dataMatch[1] \o "\"]", 80),
                            "css", "[data-test=\"" \o dataMatch[1] \o "\"]", 80)
                  ELSE s0
        s1 == IF StartsWith(originalSelector, "#") THEN byId
              ELSE IF StartsWith(originalSelector, ".") THEN byClass
              ELSE IF Includes(originalSelector, "data-") THEN byData
              ELSE s0
        hasSubmitText == HasSelector(s1, "Submit")
        hasSubmitType == HasSelector(s1, "button[type=\"submit\"]")
        s2 == IF ~hasSubmitText THEN Push(s1, "text", "Submit", 40) ELSE s1
        s3 == Push(s2, "text", "Save", 40)
        s4 == IF ~hasSubmitType THEN Push(s3, "css", "button[type=\"submit\"]", 40) ELSE s3
    IN  createSelfHealingLocator(s4, 0)

\* an enhanceLocator that does not catch the error of locator.elementHandle()
enhanceLocatorUncaught(doc, locatorStr, handle) ==
    LET originalSelector == extractSelectorFromLocator(locatorStr)
    IN  IF handle = -1 THEN Threw("locator.elementHandle: Timeout exceeded")
        ELSE IF handle > 0 THEN enhanceWorkingLocator(doc, handle, originalSelector)
        ELSE enhanceBrokenLocator(originalSelector)

\* locator.elementHandle(): handle = -1 throws (caught, element stays null),
\* 0 is null, n > 0 is element n of the page
enhanceLocator(doc, locatorStr, handle) ==
    LET originalSelector == extractSelectorFromLocator(locatorStr)
    IN  IF handle > 0 THEN enhanceWorkingLocator(doc, handle, originalSelector)
        ELSE enhanceBrokenLocator(originalSelector)

DefaultAutoEnhanceTimeout == 5000

\* options?.timeout || 5000
autoEnhanceTimeout(timeoutOption) == OrDefault(timeoutOption, DefaultAutoEnhanceTimeout)

\* an autoEnhance that lets the error of the wait reach the caller
autoEnhanceRethrow(doc, locatorStr, waited, handle) ==
    IF waited THEN enhanceLocator(doc, locatorStr, handle)
    ELSE Threw("locator.waitFor: Timeout exceeded")

\* locator.waitFor succeeds (waited) or throws; both branches enhance
autoEnhance(doc, locatorStr, waited, handle) ==
    IF waited THEN enhanceLocator(doc, locatorStr, handle)
    ELSE enhanceLocator(doc, locatorStr, handle)

----------------------------------------------------------------------------
(* SmartLocator: findByRelatedText *)

\* the result pushed for target element t found inside container c
RelatedResult(doc, c, t, targetText, relatedText) ==
    LET el == doc[c]
        targetElement == doc[t]
        elementText == TextContent(doc, c)
        containerTextLength == Len(elementText)
        relatedTextOccurrences == CountOccurrences(elementText, relatedText)
        specificityScore == IF relatedTextOccurrences = 1 THEN 100
                            ELSE IF containerTextLength < 500 THEN 80
                            ELSE IF containerTextLength < 1000 THEN 60 ELSE 40
    IN  [ node |-> t,
          tagName |-> ToLowerCase(targetElement.tagName),
          textContent |-> TextContent(doc, t),
          value |-> ValueProperty(targetElement),
          id |-> targetElement.id,
          className |-> targetElement.className,
          attributes |-> targetElement.attributes,
          isVisible |-> TRUE,
          isInteractive |-> TRUE,
          relatedText |-> relatedText,
          targetText |-> targetText,
          containerInfo |-> [ node |-> c, tagName |-> el.tagName,
                              className |-> el.className,
                              textLength |-> containerTextLength,
                              specificity |-> specificityScore ],
          score |-> specificityScore + 20 + 10 ]

\* target element t of a container qualifies: it holds the target text and is
\* visible and interactive
IsRelatedTarget(doc, t, targetText) ==
    /\ \/ Includes(TextContent(doc, t), targetText)
       \/ Includes(ValueProperty(doc[t]), targetText)
       \/ Includes(GetAttribute(doc[t], "aria-label"), targetText)
    /\ doc[t].width > 0 /\ doc[t].height > 0
    /\ \/ doc[t].tagName \in {"BUTTON", "INPUT", "A", "SELECT"}
       \/ HasAttribute(doc[t], "onclick") \/ HasAttribute(doc[t], "role")

\* relatedResults of findByRelatedText, sorted: the page function takes
\* containerTypes and maxLevelsUp from its arguments and reads neither
RelatedResults(doc, targetText, relatedText, containerTypes, maxLevelsUp) ==
    SortByScore(Flatten([c \in 1..Len(doc) |->
        IF doc[c].tagName \in SkippedTags THEN <<>>
        ELSE IF ~Includes(TextContent(doc, c), relatedText) THEN <<>>
        ELSE LET targets == SelectSeq(QuerySelectorAll(doc, c),
                                      LAMBDA t : IsRelatedTarget(doc, t, targetText))
             IN  [i \in 1..Len(targets) |->
                     RelatedResult(doc, c, targets[i], targetText, relatedText)]]))

generateRelatedTextStrategies(el, relatedText) ==
    LET inContainer == ":has-text(\"" \o relatedText \o "\") "
        content == Trim(el.textContent)
        s1 == PushIf(<<>>, el.id # "", Strategy("id", "#" \o el.id, 1, 98))
        s2 == PushIf(s1, ResultAttr(el, "data-test") # "",
                     Strategy("css", "[data-test=\"" \o ResultAttr(el, "data-test") \o "\"]",
                              2, 95))
        s3 == PushIf(s2, ResultAttr(el, "name") # "",
                     Strategy("css", "[name=\"" \o ResultAttr(el, "name") \o "\"]", 3, 90))
        s4 == PushIf(s3, ResultAttr(el, "role") # "",
                     Strategy("css", inContainer \o "[role=\"" \o ResultAttr(el, "role")
                                     \o "\"]", 4, 85))
        s5 == PushIf(s4, el.tagName = "a" /\ ResultAttr(el, "href") # "",
                     Strategy("css", inContainer \o "a[href=\"" \o ResultAttr(el, "href")
                                     \o "\"]", 5, 90))
        s6 == PushIf(s5, el.tagName = "img" /\ ResultAttr(el, "alt") # "",
                     Strategy("css", inContainer \o "img[alt=\"" \o ResultAttr(el, "alt")
                                     \o "\"]", 6, 85))
        s7 == PushIf(s6, ResultAttr(el, "title") # "",
                     Strategy("css", inContainer \o "[title=\"" \o ResultAttr(el, "title")
                                     \o "\"]", 7, 80))
        s8 == PushIf(s7, el.tagName = "input" /\ ResultAttr(el, "placeholder") # "",
                     Strategy("css", inContainer \o "input[placeholder=\""
                                     \o ResultAttr(el, "placeholder") \o "\"]", 8, 80))
        s9 == PushIf(s8, el.tagName = "input" /\ ResultAttr(el, "type") # "",
                     Strategy("css", inContainer \o "input[type=\""
                                     \o ResultAttr(el, "type") \o "\"]", 9, 75))
        s10 == PushIf(s9, el.tagName = "input" /\ el.value # "",
                      Strategy("css", "tr:has-text(\"" \o relatedText \o "\") input[value=\""
                                      \o el.value \o "\"]", 10, 90))
        s11 == PushIf(s10, el.tagName = "input" /\ el.value # "",
                      Strategy("xpath", "//*[contains(text(), \"" \o relatedText
                                        \o "\")]/ancestor::tr//input[@value=\""
                                        \o el.value \o "\"]", 11, 85))
        s12 == PushIf(s11, el.tagName = "a" /\ el.textContent # "",
                      Strategy("css", inContainer \o "a:has-text(\"" \o content \o "\")",
                               12, 85))
        s13 == PushIf(s12, el.tagName = "a" /\ el.textContent # "",
                      Strategy("xpath", "//*[contains(text(), \"" \o relatedText
                                        \o "\")]/ancestor::*//a[contains(text(), \""
                                        \o content \o "\")]", 13, 80))
        s14 == PushIf(s13, el.containerInfo.className # "",
                      Strategy("css", "." \o SplitSpace(el.containerInfo.className)[1]
                                      \o ":has-text(\"" \o relatedText \o "\") "
                                      \o el.tagName \o ":has-text(\"" \o el.targetText
                                      \o "\")", 14, 80))
    IN  s14

DefaultRelatedMaxStrategies == 1
DefaultMaxLevelsUp == 5
DefaultContainerTypes == <<"div", "section", "article", "li", "tr">>

\* a findByRelatedText that hands an empty scan on to createSelfHealingLocator
findByRelatedTextUnchecked(doc, targetText, relatedText, containerTypes, maxLevelsUp, maxStrategies) ==
    LET relatedResults ==
            RelatedResults(doc, targetText, relatedText,
                           IF containerTypes = <<>> THEN DefaultContainerTypes
                           ELSE containerTypes[1],
                           OrDefault(maxLevelsUp, DefaultMaxLevelsUp))
    IN  IF Len(relatedResults) = 0 THEN createSelfHealingLocator(<<>>, 0)
        ELSE createSelfHealingLocator(
                 Slice0(generateRelatedTextStrategies(relatedResults[1], relatedText),
                        OrDefault(maxStrategies, DefaultRelatedMaxStrategies)),
                 relatedResults[1].node)

\* each option is absent (<<>>) or <<value>>; containerTypes and maxLevelsUp
\* take their defaults and are handed to the page function
findByRelatedText(doc, targetText, relatedText, containerTypes, maxLevelsUp, maxStrategies) ==
    LET relatedResults ==
            RelatedResults(doc, targetText, relatedText,
                           IF containerTypes = <<>> THEN DefaultContainerTypes
                           ELSE containerTypes[1],
                           OrDefault(maxLevelsUp, DefaultMaxLevelsUp))
    IN  IF Len(relatedResults) = 0
        THEN Threw("No elements found for \"" \o targetText \o "\" related to \""
                   \o relatedText \o "\"")
        ELSE createSelfHealingLocator(
                 Slice0(generateRelatedTextStrategies(relatedResults[1], relatedText),
                        OrDefault(maxStrategies, DefaultRelatedMaxStrategies)),
                 relatedResults[1].node)

----------------------------------------------------------------------------
(* The pages and the arguments the finders are called with *)

\* a shop: two rows, each a product name and an "Add to Cart" button
ShopPage(firstProduct, secondProduct, withIds, rowClass) ==
    << DomNode("HTML", "", "", NoAttributes, 0, "", 1280, 900),
       DomNode("BODY", "", "", NoAttributes, 1, "", 1280, 900),
       DomNode("DIV", "", rowClass, NoAttributes, 2, "", 600, 80),
       DomNode("SPAN", "", "", NoAttributes, 3, firstProduct, 200, 20),
       DomNode("BUTTON", IF withIds THEN "add-1" ELSE "", "", NoAttributes, 3,
               " Add to Cart ", 100, 30),
       DomNode("DIV", "", rowClass, NoAttributes, 2, "", 600, 80),
       DomNode("SPAN", "", "", NoAttributes, 6, secondProduct, 200, 20),
       DomNode("BUTTON", IF withIds THEN "add-2" ELSE "", "", NoAttributes, 6,
               " Add to Cart ", 100, 30) >>

ShopPages ==
    { ShopPage(products[1], products[2], withIds, rowClass) :
        products \in { <<"iPhone 15 Pro", "Samsung Galaxy S24">>,
                       <<"Samsung Galaxy S24", "iPhone 15 Pro">> },
        withIds \in BOOLEAN,
        rowClass \in {"", "product-card featured"} }

\* a login form, with a hidden element and a link
FormPage ==
    << DomNode("HTML", "", "", NoAttributes, 0, "", 1280, 900),
       DomNode("BODY", "", "", NoAttributes, 1, "", 1280, 900),
       DomNode("DIV", "", "login_logo", NoAttributes, 2, "Swag Labs", 300, 40),
       DomNode("INPUT", "user-name", "input_error form_input wide",
               ("data-test" :> "username") @@ ("name" :> "user-name")
                   @@ ("type" :> "text") @@ ("placeholder" :> "Username"),
               2, "", 200, 30),
       DomNode("INPUT", "login-button", "",
               ("data-test" :> "login-button") @@ ("type" :> "submit")
                   @@ ("value" :> "Login"),
               2, "", 200, 30),
       DomNode("BUTTON", "submit-btn", "btn primary",
               ("data-testid" :> "submit-button") @@ ("aria-label" :> "Submit the form"),
               2, "Submit", 100, 30),
       DomNode("A", "", "", ("href" :> "/home") @@ ("role" :> "link") @@ ("title" :> "Home"),
               2, "Home", 15, 8),
       DomNode("DIV", "", "", NoAttributes, 2, "Submit later", 0, 0) >>

\* a page without content
EmptyPage ==
    << DomNode("HTML", "", "", NoAttributes, 0, "", 1280, 900),
       DomNode("BODY", "", "", NoAttributes, 1, "", 1280, 900) >>

Pages == ShopPages \cup {FormPage, EmptyPage}

SmartOptions ==
    { [maxStrategies |-> k] : k \in {<<>>} \cup { <<n>> : n \in 0..MaxStrategiesBound } }

SearchTexts == {"Add to Cart", "iPhone 15 Pro", "Submit", "Login", "Home", "Missing", ""}
FallbackLists == {<<>>, << <<"Username">> >>}
ElementTypeLists == {<<>>, << <<"button", "a">> >>}
RoleNames == {<<>>, <<"">>, <<"Submit the form">>}
TestIds == {"submit-button", "login-button"}
Selectors == {"#submit-btn", ".btn", "[data-test=\"login-button\"]"}
LocatorStrings ==
    { <<>>, <<"locator('#submit-btn-1234')">>, <<"locator('#user_7')">>,
      <<"locator('.btn-primary')">>, <<"locator('[data-qa=\"go\"]')">>,
      <<"locator('[data-]')">>, <<"getByTestId('submit-button')">>,
      <<"getByText('Submit')">>, <<"getByRole('button')">>, <<"getByLabel('Name')">> }
RelatedTexts == {"iPhone 15 Pro", "Samsung Galaxy S24", "Swag Labs", "a"}
TargetTexts == {"Add to Cart", "Login", "Home", "Submit later"}
AutoEnhanceTimeouts == {<<>>, <<0>>, <<100>>}
ContainerTypeLists == {<<>>, << <<"section", "article">> >>}
MaxLevelsUpOptions == {<<>>, <<1>>}
RelatedMaxStrategies == {<<>>} \cup { <<n>> : n \in 0..MaxStrategiesBound }

\* what locator.count() resolves to for the strategies of getDebugInfo, in
\* turn: <<>> is a count that throws
CountPatterns ==
    { << <<0>> >>, << <<1>> >>, << <<2>> >>, << <<>> >>,
      << <<0>>, <<2>> >>, << <<>>, <<1>>, <<0>> >> }

\* what a selector can resolve to in a page
Handles(doc) == {-1, 0} \cup (1..Len(doc))

----------------------------------------------------------------------------
(* SmartLocator: one instance on one page, any number of finder calls *)

SmartInit ==
    /\ pc = "constructed"
    /\ options \in SmartOptions
    /\ config = LocatorEngineConfig(options.maxStrategies, <<>>, <<>>, <<>>, <<>>)
    /\ page \in Pages
    /\ element = RootElement
    /\ elementData = captureElementData(RootElement)
    /\ generated = <<>>
    /\ sorted = <<>>
    /\ matches = <<>>
    /\ errors = {}
    /\ result = NoResult
    /\ again = NoResult
    /\ finder = NoCall
    /\ outcome = NoOutcome
    /\ calls = <<>>

\* the state after a finder call that ended with the outcome out
Finds(name, args, out) ==
    /\ pc' = "finder"
    /\ finder' = [name |-> name, args |-> args]
    /\ outcome' = out
    /\ UNCHANGED <<config, engineVars, options, page, calls>>

FindByVisibleText ==
    /\ pc = "constructed"
    /\ \E searched \in SearchTexts, fallbacks \in FallbackLists,
          elementTypes \in ElementTypeLists :
          Finds("findByVisibleText",
                [text |-> searched, fallbacks |-> fallbacks, elementTypes |-> elementTypes],
                findByVisibleText(page, options, searched, fallbacks, elementTypes))

FindByText ==
    /\ pc = "constructed"
    /\ \E searched \in SearchTexts, fallbacks \in FallbackLists :
          Finds("findByText", [text |-> searched, fallbacks |-> fallbacks],
                findByText(searched, fallbacks))

FindByRole ==
    /\ pc = "constructed"
    /\ \E name \in RoleNames, handle \in Handles(page) :
          Finds("findByRole", [role |-> "button", name |-> name, handle |-> handle],
                findByRole(page, "button", name, handle))

FindByTestId ==
    /\ pc = "constructed"
    /\ \E testId \in TestIds :
          Finds("findByTestId", [testId |-> testId], findByTestId(testId))

FindBySelector ==
    /\ pc = "constructed"
    /\ \E selector \in Selectors, handle \in Handles(page) :
          Finds("findBySelector", [selector |-> selector, handle |-> handle],
                findBySelector(page, selector, handle))

EnhanceLocator ==
    /\ pc = "constructed"
    /\ \E locatorStr \in LocatorStrings, handle \in Handles(page) :
          Finds("enhanceLocator", [locator |-> locatorStr, handle |-> handle],
                enhanceLocator(page, locatorStr, handle))

\* autoEnhance(locator, options) up to its await of locator.waitFor({timeout})
AutoEnhance ==
    /\ pc = "constructed"
    /\ \E locatorStr \in LocatorStrings, timeoutOption \in AutoEnhanceTimeouts :
          /\ pc' = "waitFor"
          /\ finder' = [name |-> "autoEnhance",
                        args |-> [locator |-> locatorStr, timeoutOption |-> timeoutOption,
                                  timeout |-> autoEnhanceTimeout(timeoutOption)]]
          /\ outcome' = NoOutcome
          /\ UNCHANGED <<config, engineVars, options, page, calls>>

\* the wait settles (the locator appeared, or waitFor threw), the rest of autoEnhance runs
AutoEnhanceWaited ==
    /\ pc = "waitFor"
    /\ \E waited \in BOOLEAN, handle \in Handles(page) :
          Finds("autoEnhance",
                [locator |-> finder.args.locator, timeout |-> finder.args.timeout,
                 waited |-> waited, handle |-> handle],
                autoEnhance(page, finder.args.locator, waited, handle))

FindByRelatedText ==
    /\ pc = "constructed"
    /\ \E targetText \in TargetTexts, relatedText \in RelatedTexts,
          containerTypes \in ContainerTypeLists, maxLevelsUp \in MaxLevelsUpOptions,
          maxStrategies \in RelatedMaxStrategies :
          Finds("findByRelatedText",
                [targetText |-> targetText, relatedText |-> relatedText,
                 containerTypes |-> containerTypes, maxLevelsUp |-> maxLevelsUp,
                 maxStrategies |-> maxStrategies],
                findByRelatedText(page, targetText, relatedText, containerTypes,
                                  maxLevelsUp, maxStrategies))

\* what the locators of the strategies count, strategy by strategy
CountsOf(pattern, n) == [i \in 1..n |-> pattern[((i - 1) % Len(pattern)) + 1]]

GetDebugInfo ==
    /\ pc = "constructed"
    /\ \E selector \in Selectors, handle \in Handles(page), pattern \in CountPatterns :
          LET n == Len(generateStrategiesForSelector(page, selector, handle))
          IN  /\ pc' = "getDebugInfo"
              /\ finder' = [name |-> "getDebugInfo",
                            args |-> [selector |-> selector, handle |-> handle,
                                      counts |-> CountsOf(pattern, n)]]
              /\ outcome' = getDebugInfo(page, selector, handle, CountsOf(pattern, n))
              /\ UNCHANGED <<config, engineVars, options, page, calls>>

\* the caller takes the locator or the debug information, or catches the error
FinderReturn ==
    /\ pc \in {"finder", "getDebugInfo"}
    /\ pc' = "constructed"
    /\ finder' = NoCall
    /\ outcome' = NoOutcome
    /\ UNCHANGED <<config, engineVars, options, page, calls>>

SmartNext ==
    \/ FindByVisibleText
    \/ FindByText
    \/ FindByRole
    \/ FindByTestId
    \/ FindBySelector
    \/ EnhanceLocator
    \/ AutoEnhance
    \/ AutoEnhanceWaited
    \/ FindByRelatedText
    \/ GetDebugInfo
    \/ FinderReturn

SpecSmart == SmartInit /\ [][SmartNext]_vars

----------------------------------------------------------------------------
(* SmartLocator: two finder calls in flight on one instance.  A call runs   *)
(* from one await to the next in one step; what it holds between two awaits *)
(* are its local constants (domScanResults, relatedResults, allStrategies). *)

CallIds == {1, 2}

Idle == [name |-> "", args |-> <<>>, step |-> "idle", held |-> <<>>,
         interleaved |-> FALSE, outcome |-> NoOutcome]

\* the pages of the concurrent calls: a shop and the login form
PairPages == {ShopPage("iPhone 15 Pro", "Samsung Galaxy S24", TRUE, "product-card featured"),
              FormPage}

PairTexts == {"Add to Cart", "Submit", "Missing"}
PairRelatedTexts == {"iPhone 15 Pro", "Samsung Galaxy S24"}
PairMaxStrategies == {<<2>>}

\* a result kept in a field of the instance: a call reads what the other call
\* of the same finder stored there
LocalsOfShared(c) ==
    LET d == CHOOSE e \in CallIds : e # c
    IN  IF calls[d].name = calls[c].name /\ calls[d].held # <<>> THEN calls[d].held
        ELSE calls[c].held

\* the local constant a call reads after its await: its own
LocalsOf(c) == calls[c].held

\* textVariations = [text, ...fallbacks]
TextVariations(args) ==
    <<args.text>> \o (IF args.fallbacks = <<>> THEN <<>> ELSE args.fallbacks[1])

\* the other call is between two awaits
OtherInFlight(c) == \E d \in CallIds \ {c} : calls[d].step \notin {"idle", "done"}

PairInit ==
    /\ pc = "constructed"
    /\ options \in SmartOptions
    /\ config = LocatorEngineConfig(options.maxStrategies, <<>>, <<>>, <<>>, <<>>)
    /\ page \in PairPages
    /\ element = RootElement
    /\ elementData = captureElementData(RootElement)
    /\ generated = <<>>
    /\ sorted = <<>>
    /\ matches = <<>>
    /\ errors = {}
    /\ result = NoResult
    /\ again = NoResult
    /\ finder = NoCall
    /\ outcome = NoOutcome
    /\ calls = [c \in CallIds |-> Idle]

\* the step of call c: the other call and the instance are left alone
Steps(c, call) ==
    /\ calls' = [calls EXCEPT ![c] = [call EXCEPT !.interleaved = @ \/ OtherInFlight(c)]]
    /\ UNCHANGED <<pc, config, engineVars, options, page, finder, outcome>>

\* findByVisibleText(text) up to its await of scanDomForText
PairFindByVisibleText ==
    /\ pc = "constructed"
    /\ \E c \in CallIds, searched \in PairTexts :
          /\ calls[c].step = "idle"
          /\ Steps(c, [Idle EXCEPT !.name = "findByVisibleText",
                                   !.args = [text |-> searched, fallbacks |-> <<>>,
                                             elementTypes |-> <<>>],
                                   !.step = "scanDomForText"])

\* findByRelatedText(target, related, options) up to its await of page.evaluate
PairFindByRelatedText ==
    /\ pc = "constructed"
    /\ \E c \in CallIds, relatedText \in PairRelatedTexts,
          maxStrategies \in PairMaxStrategies :
          /\ calls[c].step = "idle"
          /\ Steps(c, [Idle EXCEPT !.name = "findByRelatedText",
                                   !.args = [targetText |-> "Add to Cart",
                                             relatedText |-> relatedText,
                                             containerTypes |-> <<>>,
                                             maxLevelsUp |-> <<>>,
                                             maxStrategies |-> maxStrategies],
                                   !.step = "evaluate"])

\* findByText(text, {fallbacks}) up to its first await of generateStrategiesForText
PairFindByText ==
    /\ pc = "constructed"
    /\ \E c \in CallIds, fallbacks \in FallbackLists :
          /\ calls[c].step = "idle"
          /\ Steps(c, [Idle EXCEPT !.name = "findByText",
                                   !.args = [text |-> "Submit", fallbacks |-> fallbacks,
                                             awaited |-> 0],
                                   !.step = "generateStrategiesForText"])

\* the scan of the page resolves: no result throws, else await analyzeBestStrategies
PairScanned ==
    /\ pc = "constructed"
    /\ \E c \in CallIds :
          /\ calls[c].step = "scanDomForText"
          /\ LET domScanResults == scanDomForText(page, TextVariations(calls[c].args), <<>>)
             IN  IF Len(domScanResults) = 0
                 THEN Steps(c, [calls[c] EXCEPT
                          !.step = "done",
                          !.outcome = Threw("No elements found for text variations: "
                                            \o JoinWith(TextVariations(calls[c].args), ", "))])
                 ELSE Steps(c, [calls[c] EXCEPT !.step = "analyzeBestStrategies",
                                                !.held = domScanResults])

\* analyzeBestStrategies resolves, createSelfHealingLocator builds the composite
PairAnalyzed ==
    /\ pc = "constructed"
    /\ \E c \in CallIds :
          /\ calls[c].step = "analyzeBestStrategies"
          /\ Steps(c, [calls[c] EXCEPT
                 !.step = "done",
                 !.outcome = createSelfHealingLocator(
                                 analyzeBestStrategies(options, LocalsOf(c)),
                                 ScoredElements(LocalsOf(c))[1].node)])

\* page.evaluate resolves: no result throws, else await generateRelatedTextStrategies
PairEvaluated ==
    /\ pc = "constructed"
    /\ \E c \in CallIds :
          /\ calls[c].step = "evaluate"
          /\ LET relatedResults ==
                     RelatedResults(page, calls[c].args.targetText,
                                    calls[c].args.relatedText, DefaultContainerTypes,
                                    DefaultMaxLevelsUp)
             IN  IF Len(relatedResults) = 0
                 THEN Steps(c, [calls[c] EXCEPT
                          !.step = "done",
                          !.outcome = Threw("No elements found for \""
                                            \o calls[c].args.targetText
                                            \o "\" related to \""
                                            \o calls[c].args.relatedText \o "\"")])
                 ELSE Steps(c, [calls[c] EXCEPT !.step = "generateRelatedTextStrategies",
                                                !.held = relatedResults])

\* generateRelatedTextStrategies resolves, the slice and the composite follow
PairRelated ==
    /\ pc = "constructed"
    /\ \E c \in CallIds :
          /\ calls[c].step = "generateRelatedTextStrategies"
          /\ Steps(c, [calls[c] EXCEPT
                 !.step = "done",
                 !.outcome = createSelfHealingLocator(
                                 Slice0(generateRelatedTextStrategies(
                                            LocalsOf(c)[1], calls[c].args.relatedText),
                                        OrDefault(calls[c].args.maxStrategies,
                                                  DefaultRelatedMaxStrategies)),
                                 LocalsOf(c)[1].node)])

\* one generateStrategiesForText resolves: allStrategies.push(...strategies), and
\* the next variation is awaited or the composite is built
PairGenerated ==
    /\ pc = "constructed"
    /\ \E c \in CallIds :
          /\ calls[c].step = "generateStrategiesForText"
          /\ LET textVariations == TextVariations(calls[c].args)
                 awaited == calls[c].args.awaited + 1
                 allStrategies == LocalsOf(c)
                                  \o generateStrategiesForText(textVariations[awaited])
             IN  IF awaited < Len(textVariations)
                 THEN Steps(c, [calls[c] EXCEPT !.args.awaited = awaited,
                                                !.held = allStrategies])
                 ELSE Steps(c, [calls[c] EXCEPT
                          !.args.awaited = awaited,
                          !.held = allStrategies,
                          !.step = "done",
                          !.outcome = createSelfHealingLocator(allStrategies, 0)])

\* the caller of a finished call takes the locator or catches the error
PairReturn ==
    /\ pc = "constructed"
    /\ \E c \in CallIds :
          /\ calls[c].step = "done"
          /\ calls' = [calls EXCEPT ![c] = Idle]
          /\ UNCHANGED <<pc, config, engineVars, options, page, finder, outcome>>

PairNext ==
    \/ PairFindByVisibleText
    \/ PairFindByRelatedText
    \/ PairFindByText
    \/ PairScanned
    \/ PairAnalyzed
    \/ PairEvaluated
    \/ PairRelated
    \/ PairGenerated
    \/ PairReturn

SpecPair == PairInit /\ [][PairNext]_vars

----------------------------------------------------------------------------
(* Claims about the engine *)

Called == pc = "generateSelectors"

\* a strategy without the isUnique mark of validation
Base(s) == [type |-> s.type, selector |-> s.selector, priority |-> s.priority,
            reliability |-> s.reliability]

Range(s) == {s[i] : i \in 1..Len(s)}

TestTier == Range(addTestAttributeStrategies(elementData))
TextTier == Range(addTextStrategies(elementData))
FallbackTier == Range(addFallbackStrategies(config, elementData))

\* the priorities, within a list, of the strategies of a tier
PrioritiesOf(list, tier) ==
    {list[i].priority : i \in {j \in 1..Len(list) : Base(list[j]) \in tier}}

AllBelow(P, Q) == \A p \in P : \A q \in Q : p < q

TiersOrderedIn(list) ==
    \E test \in {PrioritiesOf(list, TestTier)} :
    \E text \in {PrioritiesOf(list, TextTier)} :
    \E fallback \in {PrioritiesOf(list, FallbackTier)} :
        /\ AllBelow(test, text)
        /\ AllBelow(text, fallback)
        /\ AllBelow(test, fallback)

\* C2: in every list generateSelectors builds (all strategies, the sorted and
\* sliced ones, the validated ones) each test-attribute-tier strategy has a
\* strictly lower priority than each text-tier strategy, and each text-tier
\* strategy a strictly lower priority than each fallback-tier strategy.
C2_TierMonotonicity ==
    Called => /\ TiersOrderedIn(generated)
              /\ TiersOrderedIn(sorted)
              /\ TiersOrderedIn(result.strategies)

C2_Witness ==
    /\ Called
    /\ \E i, j, k \in 1..Len(result.strategies) :
          /\ Base(result.strategies[i]) \in TestTier
          /\ Base(result.strategies[j]) \in TextTier
          /\ Base(result.strategies[k]) \in FallbackTier
    /\ config.fallbackToPosition
    /\ \E i \in 1..Len(generated) : generated[i].priority = 5

\* C3: generateSelectors returns at most maxStrategies strategies, none when
\* maxStrategies is 0.
C3_CapRespected ==
    Called => /\ Len(result.strategies) <= config.maxStrategies
              /\ (config.maxStrategies = 0 => result.strategies = <<>>)

C3_Witness ==
    /\ Called
    /\ config.maxStrategies > 0
    /\ Len(generated) > config.maxStrategies
    /\ Len(result.strategies) = config.maxStrategies

\* the indices of the sorted strategies whose query matched 1..MatchLimit elements
KeptIndices == {i \in 1..Len(sorted) : matches[i] >= 1 /\ matches[i] <= MatchLimit}

\* the n-th smallest member of a set of indices
NthIndex(S, n) == CHOOSE i \in S : Cardinality({j \in S : j < i}) = n - 1

\* C4: the validated list is the sorted list without the strategies that matched
\* 0 or more than 5 elements, in the same order, and a retained strategy has
\* isUnique = true exactly when it matched exactly 1 element.
C4_MatchBand ==
    Called =>
        /\ Len(result.strategies) = Cardinality(KeptIndices)
        /\ \A n \in 1..Len(result.strategies) :
              LET i == NthIndex(KeptIndices, n)
              IN  /\ Base(result.strategies[n]) = sorted[i]
                  /\ result.strategies[n].isUnique = (matches[i] = 1)

C4_Witness ==
    /\ Called
    /\ \E i, j, k, l \in 1..Len(sorted) :
          /\ matches[i] = 0
          /\ matches[j] = 1
          /\ matches[k] = MatchLimit
          /\ matches[l] = MatchLimit + 1
    /\ Len(result.strategies) >= 2
    /\ Len(result.strategies) < Len(sorted)

\* C5: the confidence of a LocatorResult is in [0,1], and it is 0 when no
\* strategy was validated.
C5_ConfidenceBounds ==
    Called =>
        /\ result.confidence.den > 0
        /\ result.confidence.num >= 0
        /\ result.confidence.num <= 100 * result.confidence.den
        /\ (result.strategies = <<>> => result.confidence.num = 0)

C5_Witness ==
    /\ Called
    /\ Len(result.strategies) >= 2
    /\ \E i, j \in 1..Len(result.strategies) :
          result.strategies[i].isUnique /\ ~result.strategies[j].isUnique
    /\ result.confidence.num > 0
    /\ result.confidence.num < 100 * result.confidence.den

\* the list with its i-th strategy made unique and nothing else changed
MadeUnique(list, i) == [list EXCEPT ![i] = [isUnique |-> TRUE] @@ Base(list[i])]

\* a / b > c / d for positive b and d
FractionGreater(x, y) == x.num * y.den > y.num * x.den

\* C6 as stated: replacing a non-unique validated strategy by the same strategy
\* with isUnique = true strictly increases calculateConfidence.
C6_StrictIncrease ==
    Called =>
        \A i \in 1..Len(result.strategies) :
            ~result.strategies[i].isUnique =>
                FractionGreater(calculateConfidence(MadeUnique(result.strategies, i)),
                                result.confidence)

\* C6 amended: the replacement strictly increases the confidence exactly when the
\* replaced strategy's reliability is above the confidence of the list before,
\* leaves it unchanged when the two are equal (as for a one-strategy list) and
\* lowers it when the reliability is below.
C6_IncreaseIffAboveMean ==
    Called =>
        \A i \in 1..Len(result.strategies) :
            ~result.strategies[i].isUnique =>
                LET after == calculateConfidence(MadeUnique(result.strategies, i))
                    own == [num |-> ConfidenceReliability(result.strategies[i]), den |-> 1]
                IN  /\ FractionGreater(after, result.confidence)
                          <=> FractionGreater(own, result.confidence)
                    /\ FractionGreater(result.confidence, after)
                          <=> FractionGreater(result.confidence, own)

C6_Witness ==
    /\ Called
    /\ \E i, j \in 1..Len(result.strategies) :
          /\ ~result.strategies[i].isUnique
          /\ ~result.strategies[j].isUnique
          /\ FractionGreater(calculateConfidence(MadeUnique(result.strategies, i)),
                             result.confidence)
          /\ FractionGreater(result.confidence,
                             calculateConfidence(MadeUnique(result.strategies, j)))

HasStrategyBefore(list, first, second) ==
    \E i, j \in 1..Len(list) :
        /\ list[i].selector = first
        /\ list[j].selector = second
        /\ list[i].priority < list[j].priority

\* C7 as stated: an element with a data-testid attribute and an id has the
\* data-testid strategy at a lower priority number than the id strategy.
C7_TestIdBeforeId ==
    (Called /\ "data-testid" \in DOMAIN element.attributes /\ ElementId(element) # "")
        => HasStrategyBefore(generated,
                             AttrSelector("data-testid", element.attributes),
                             "#" \o ElementId(element))

\* C7 amended: an element with a non-empty data-testid attribute and an id has,
\* among all generated strategies, the data-testid strategy at a strictly lower
\* priority number than the id strategy, test-like id or not.
C7_NonEmptyTestIdBeforeId ==
    (/\ Called
     /\ "data-testid" \in DOMAIN element.attributes
     /\ element.attributes["data-testid"] # ""
     /\ ElementId(element) # "")
        => HasStrategyBefore(generated,
                             AttrSelector("data-testid", element.attributes),
                             "#" \o ElementId(element))

C7_Witness ==
    /\ Called
    /\ "data-testid" \in DOMAIN element.attributes
    /\ element.attributes["data-testid"] # ""
    /\ ElementId(element) # ""
    /\ isTestLikeId(ElementId(element))
    /\ \E i \in 1..Len(generated) : generated[i].selector = "#" \o ElementId(element)

\* C8 as stated: no two strategies of the result have the same selector.
C8_NoDuplicateSelectors ==
    Called =>
        \A i, j \in 1..Len(result.strategies) :
            i # j => result.strategies[i].selector # result.strategies[j].selector

----------------------------------------------------------------------------
(* Claims about SmartLocator *)

Found == pc = "finder"

\* the elements of doc that are buttons labelled label
ButtonsLabelled(doc, label) ==
    {n \in 1..Len(doc) : doc[n].tagName = "BUTTON" /\ TextContent(doc, n) = label}

\* r1 and r2 are two rows of doc, one after the other, each with a button
\* labelled label
AreRows(doc, r1, r2, label) ==
    /\ r1 < r2
    /\ doc[r1].parent = doc[r2].parent
    /\ \E b \in ButtonsLabelled(doc, label) : IsInside(doc, b, r1)
    /\ \E b \in ButtonsLabelled(doc, label) : IsInside(doc, b, r2)

\* related occurs in row r, not in row other, and once in the whole document
OnlyInRow(doc, r, other, related) ==
    /\ Includes(TextContent(doc, r), related)
    /\ ~Includes(TextContent(doc, other), related)
    /\ CountOccurrences(TextContent(doc, 1), related) = 1

\* C1 as stated: on a page with two rows that each hold an "Add to Cart" button,
\* "iPhone 15 Pro" occurring in one row only and nowhere else, the locator
\* findByRelatedText("Add to Cart", "iPhone 15 Pro") returns is built from the
\* button of the row with "iPhone 15 Pro", whichever row comes first.
C1_ButtonOfRelatedRow ==
    (/\ Found
     /\ finder.name = "findByRelatedText"
     /\ finder.args.targetText = "Add to Cart"
     /\ finder.args.relatedText = "iPhone 15 Pro"
     /\ ~outcome.threw)
        => \A r1, r2 \in 1..Len(page) :
              AreRows(page, r1, r2, "Add to Cart") =>
                  /\ OnlyInRow(page, r1, r2, "iPhone 15 Pro")
                        => IsInside(page, outcome.node, r1)
                  /\ OnlyInRow(page, r2, r1, "iPhone 15 Pro")
                        => IsInside(page, outcome.node, r2)

\* C9: a finder call either returns a composite locator of at least one
\* strategy, one locator per strategy, or ends with an error and no locator.
C9_LocatorOrError ==
    Found =>
        \/ /\ outcome.threw
           /\ outcome.message # ""
           /\ outcome.parts = <<>>
        \/ /\ ~outcome.threw
           /\ outcome.built
           /\ Len(outcome.given) >= 1
           /\ Len(outcome.parts) = Len(outcome.given)

C9_Witness ==
    /\ Found
    /\ finder.name = "findByRelatedText"
    /\ ~outcome.threw
    /\ Len(outcome.parts) >= 2

\* C10: createSelfHealingLocator on an empty strategy list throws 'No strategies
\* available for locator' and makes no locator, from whichever finder it is
\* reached.
C10_EmptyListThrows ==
    /\ createSelfHealingLocator(<<>>, 0).threw
    /\ (Found /\ outcome.built /\ outcome.given = <<>>)
          => /\ outcome.threw
             /\ outcome.message = "No strategies available for locator"
             /\ outcome.parts = <<>>

C10_Witness ==
    /\ Found
    /\ finder.name \in {"findByVisibleText", "findByRelatedText"}
    /\ outcome.built
    /\ outcome.given = <<>>
    /\ outcome.threw

\* the pairs <<c, t>> of the page: t is a visible interactive element holding
\* the target text (in its text, value or aria-label) inside a container c
\* whose text holds the related text
RelatedCandidates(doc, targetText, relatedText) ==
    { ct \in (1..Len(doc)) \X (1..Len(doc)) :
        /\ doc[ct[1]].tagName \notin SkippedTags
        /\ Includes(TextContent(doc, ct[1]), relatedText)
        /\ IsInside(doc, ct[2], ct[1])
        /\ IsRelatedTarget(doc, ct[2], targetText) }

FoundRelated == Found /\ finder.name = "findByRelatedText"

\* C11: findByRelatedText throws 'No elements found for "<target>" related to
\* "<related>"' exactly when the page has no candidate, and it then neither
\* reaches createSelfHealingLocator nor makes a locator.
C11_NoMatchFound ==
    FoundRelated =>
        LET none == RelatedCandidates(page, finder.args.targetText,
                                      finder.args.relatedText) = {}
            message == "No elements found for \"" \o finder.args.targetText
                       \o "\" related to \"" \o finder.args.relatedText \o "\""
        IN  /\ none => /\ outcome.threw
                       /\ outcome.message = message
                       /\ ~outcome.built
                       /\ outcome.parts = <<>>
            /\ ~none => outcome.message # message

\* both texts are on the page, the target text inside a container of the related
\* text, but in no visible interactive element
C11_Witness ==
    /\ FoundRelated
    /\ \E c, t \in 1..Len(page) :
          /\ Includes(TextContent(page, c), finder.args.relatedText)
          /\ IsInside(page, t, c)
          /\ page[t].parent # 1
          /\ Includes(TextContent(page, t), finder.args.targetText)
    /\ RelatedCandidates(page, finder.args.targetText, finder.args.relatedText) = {}
    /\ outcome.threw
    /\ ~outcome.built

\* C12: the primary selector is the selector of the first unique strategy of the
\* validated list, which is in priority order; of the first strategy when none
\* is unique; and the empty string when the list is empty.
C12_PrimarySelector ==
    Called =>
        LET list == result.strategies
            unique == {i \in 1..Len(list) : list[i].isUnique}
        IN  /\ \A i, j \in 1..Len(list) : i < j => list[i].priority <= list[j].priority
            /\ list = <<>> => result.primarySelector = ""
            /\ (list # <<>> /\ unique = {}) => result.primarySelector = list[1].selector
            /\ unique # {} =>
                  result.primarySelector =
                      list[CHOOSE i \in unique : \A j \in unique : i <= j].selector

C12_Witness ==
    /\ Called
    /\ Len(result.strategies) >= 3
    /\ ~result.strategies[1].isUnique
    /\ ~result.strategies[2].isUnique
    /\ result.strategies[3].isUnique
    /\ result.primarySelector = result.strategies[3].selector
    /\ result.primarySelector # result.strategies[1].selector

PrecedingSameTag(level) ==
    Cardinality({ i \in 1..Len(level.prev) :
                    ToLowerCase(level.prev[i]) = ToLowerCase(level.tagName) })

\* the segment the path is to have for a level
SegmentOf(level) ==
    LET n == 1 + PrecedingSameTag(level)
    IN  ToLowerCase(level.tagName) \o
        (IF n > 1 THEN "[" \o ToString(n) \o "]" ELSE "")

\* the segments of the levels from the root down to level k, joined with '/'
RECURSIVE SegmentsFromRoot(_, _)
SegmentsFromRoot(path, k) ==
    IF k = Len(path) THEN SegmentOf(path[k])
    ELSE SegmentsFromRoot(path, k + 1) \o "/" \o SegmentOf(path[k])

EndsWith(s, t) ==
    Len(s) >= Len(t) /\ SubSeq(s, Len(s) - Len(t) + 1, Len(s)) = t

\* C14: the hierarchical path is '//' followed by one segment per level, root
\* first, joined with '/'; a segment is the lower-cased tag of its level,
\* followed by [n] when n > 1, n being 1 plus the number of preceding siblings
\* with the same tag; no segment is a wildcard; the path of the second <li>
\* among its <li> siblings ends in li[2].  The xpath strategy, when generated,
\* carries this path.
C14_HierarchicalPath ==
    Called =>
        /\ elementData.xpath = "//" \o SegmentsFromRoot(element.path, 1)
        /\ ~Includes(elementData.xpath, "*")
        /\ (element.path[1].tagName = "LI" /\ PrecedingSameTag(element.path[1]) = 1)
               => EndsWith(elementData.xpath, "/li[2]")
        /\ config.includeXPath =>
               \E i \in 1..Len(generated) :
                   /\ generated[i].type = "xpath"
                   /\ generated[i].priority = 31
                   /\ generated[i].selector = elementData.xpath

\* the second item of a list, after a first item and a heading
C14_Witness ==
    /\ Called
    /\ element.path[1].tagName = "LI"
    /\ element.path[1].prev = <<"LI", "H2">>
    /\ elementData.xpath = "//html/body/ul[2]/li[2]"
    /\ \E i \in 1..Len(result.strategies) :
          result.strategies[i].selector = "//html/body/ul[2]/li[2]"

\* the tokens of the element's class list
ClassTokens == IF "class" \in DOMAIN element.attributes
               THEN SplitSpace(element.attributes["class"]) ELSE <<>>

\* the positions of the tokens that match none of the utility patterns
SemanticTokens ==
    { i \in 1..Len(ClassTokens) : ClassTokens[i] # "" /\ ~isUtilityClass(ClassTokens[i]) }

\* the selectors of the generated strategies of a priority
SelectorsAt(priority) ==
    { generated[i].selector : i \in { j \in 1..Len(generated) : generated[j].priority = priority } }

\* C15: the best class strategy (priority 21) selects the first token of the
\* class list that matches none of the utility patterns, and the tag-with-class
\* strategy (priority 22) the same token; for p-4 text-lg submit-button that is
\* submit-button, never p-4 or text-lg.  A list of utility classes only gets
\* no class strategy.
C15_BestClass ==
    Called =>
        /\ SemanticTokens # {} =>
              LET best == ClassTokens[CHOOSE i \in SemanticTokens :
                                         \A j \in SemanticTokens : i <= j]
              IN  /\ SelectorsAt(21) = {"." \o best}
                  /\ SelectorsAt(22) = {elementData.tagName \o "." \o best}
        /\ SemanticTokens = {} => SelectorsAt(21) = {} /\ SelectorsAt(22) = {}
        /\ ClassTokens = <<"p-4", "text-lg", "submit-button">> =>
              /\ SelectorsAt(21) = {".submit-button"}
              /\ ".p-4" \notin SelectorsAt(21) /\ ".text-lg" \notin SelectorsAt(21)

\* the class list of the example, its best class kept in the result
C15_Witness ==
    /\ Called
    /\ ClassTokens = <<"p-4", "text-lg", "submit-button">>
    /\ SelectorsAt(21) = {".submit-button"}
    /\ \E i \in 1..Len(result.strategies) :
          result.strategies[i].selector = ".submit-button"

\* C16: an engine configured with includeXPath = false returns no strategy of
\* type xpath, whatever the element and the other options are.
C16_NoXPathWhenExcluded ==
    (Called /\ ~config.includeXPath) =>
        \A i \in 1..Len(result.strategies) : result.strategies[i].type # "xpath"

\* the element without its data-testid attribute, otherwise identical
WithoutTestId(el) ==
    [el EXCEPT !.attributes =
        [n \in (DOMAIN el.attributes) \ {"data-testid"} |-> el.attributes[n]]]

\* the element carries data-testid and no other test attribute
OnlyTestId(el) ==
    /\ "data-testid" \in DOMAIN el.attributes
    /\ (DOMAIN el.attributes) \cap {"data-test", "data-qa", "test-id"} = {}

\* generateSelectors(el) in the document that answers every query with one element
generateSelectorsUniform(cfg, el) ==
    LET sortedStrategies ==
            SortAndSlice(cfg, generateAllStrategies(cfg, captureElementData(el)))
    IN  generateSelectors(cfg, el, AnswersFor(sortedStrategies, << <<1>> >>))

FoundBroken ==
    Found /\ finder.name = "enhanceLocator" /\ finder.args.handle <= 0

\* the positions of a locator among the parts of the composite
PartsAt(method, argument) ==
    { i \in 1..Len(outcome.parts) : outcome.parts[i] = PageLocator(method, argument) }

\* C19: when resolving the original locator throws or yields no element,
\* enhanceLocator does not fail: it returns a composite whose first strategy
\* is the original selector, followed by alternatives; for the original
\* selector #submit-btn-1234 the alternatives include the text 'Submit',
\* button[type="submit"] and [id^="submit-btn"].
C19_BrokenLocatorEnhanced ==
    FoundBroken =>
        /\ ~outcome.threw
        /\ outcome.built
        /\ Len(outcome.parts) >= 2
        /\ outcome.given[1].selector = extractSelectorFromLocator(finder.args.locator)
        /\ \A i \in 2..Len(outcome.given) :
               outcome.given[1].priority < outcome.given[i].priority
        /\ outcome.parts[1] = PageLocator("locator", outcome.given[1].selector)
        /\ finder.args.locator = <<"locator('#submit-btn-1234')">> =>
              /\ outcome.parts[1] = PageLocator("locator", "#submit-btn-1234")
              /\ \E i \in PartsAt("getByText", "Submit") : i > 1
              /\ \E i \in PartsAt("locator", "button[type=\"submit\"]") : i > 1
              /\ \E i \in PartsAt("locator", "[id^=\"submit-btn\"]") : i > 1

\* resolving #submit-btn-1234 threw, and the composite holds its alternatives
C19_Witness ==
    /\ FoundBroken
    /\ finder.args.handle = -1
    /\ finder.args.locator = <<"locator('#submit-btn-1234')">>
    /\ outcome.parts =
          << PageLocator("locator", "#submit-btn-1234"),
             PageLocator("getByText", "Submit"),
             PageLocator("locator", "button[type=\"submit\"]"),
             PageLocator("locator", "input[type=\"submit\"]"),
             PageLocator("locator", "[id^=\"submit-btn\"]"),
             PageLocator("getByText", "Save") >>

\* the number of parent steps from element t up to its ancestor c
RECURSIVE LevelsUp(_, _, _)
LevelsUp(doc, t, c) ==
    IF doc[t].parent = c THEN 1 ELSE 1 + LevelsUp(doc, doc[t].parent, c)

\* the containers of the related text around element t that the options admit
AdmittedContainers(doc, t, relatedText, containerTypes, maxLevelsUp) ==
    { c \in 1..Len(doc) :
        /\ IsInside(doc, t, c)
        /\ Includes(TextContent(doc, c), relatedText)
        /\ containerTypes # <<>> =>
              \E i \in 1..Len(containerTypes[1]) :
                  containerTypes[1][i] = ToLowerCase(doc[c].tagName)
        /\ maxLevelsUp # <<>> => LevelsUp(doc, t, c) <= maxLevelsUp[1] }

\* C20: with options.containerTypes the target is found only within a
\* container of one of these tags, and with options.maxLevelsUp only within a
\* container at most that many levels above it: the element the returned
\* locator is built from has a container of the related text that the options
\* admit.
C20_ContainerOptionsRestrict ==
    (FoundRelated /\ ~outcome.threw /\ outcome.node > 0) =>
        AdmittedContainers(page, outcome.node, finder.args.relatedText,
                           finder.args.containerTypes, finder.args.maxLevelsUp) # {}

\* C21: a SmartLocator constructed with config.maxStrategies = k builds the
\* findByVisibleText composite from at most k strategies, and findByRelatedText
\* called with options.maxStrategies = k builds its composite from at most k
\* strategies, for every k >= 0.
C21_SmartCapRespected ==
    (Found /\ outcome.built) =>
        /\ (finder.name = "findByVisibleText" /\ options.maxStrategies # <<>>)
              => Len(outcome.given) <= options.maxStrategies[1]
        /\ (finder.name = "findByRelatedText" /\ finder.args.maxStrategies # <<>>)
              => Len(outcome.given) <= finder.args.maxStrategies[1]

\* the place in the chain of the i-th strategy handed to createSelfHealingLocator:
\* after every strategy of lower priority number and every earlier one of the same
ChainPlace(given, i) ==
    1 + Cardinality({ j \in 1..Len(given) :
                        \/ given[j].priority < given[i].priority
                        \/ given[j].priority = given[i].priority /\ j < i })

\* C22: createSelfHealingLocator chains the strategies in ascending priority
\* order: the first locator of the chain is that of a strategy of minimal
\* priority number, the priorities never decrease along the chain, and
\* strategies of equal priority keep their input order, so that findByText
\* with fallbacks interleaves the strategies of its texts by priority.
C22_ChainInPriorityOrder ==
    (Found /\ outcome.built /\ ~outcome.threw) =>
        /\ Len(outcome.parts) = Len(outcome.given)
        /\ \A i \in 1..Len(outcome.given) :
              outcome.parts[ChainPlace(outcome.given, i)]
                  = createLocatorForStrategy(outcome.given[i])
        /\ (finder.name = "findByText" /\ finder.args.fallbacks # <<>>) =>
              \A i \in 1..Len(outcome.parts) :
                  outcome.parts[i] =
                      createLocatorForStrategy(
                          generateStrategiesForText(
                              IF i % 2 = 1 THEN finder.args.text
                              ELSE finder.args.fallbacks[1][1])[(i + 1) \div 2])

\* findByText with one fallback: twelve locators, the two texts alternating
C22_Witness ==
    /\ Found
    /\ finder.name = "findByText"
    /\ finder.args.text = "Submit"
    /\ finder.args.fallbacks = << <<"Username">> >>
    /\ Len(outcome.parts) = 12
    /\ outcome.parts[11] = PageLocator("getByText", "Submit")
    /\ outcome.parts[12] = PageLocator("getByText", "Username")
    /\ outcome.given[2].priority = 2
    /\ outcome.given[7].priority = 1

\* the indices of the sorted strategies whose query raised no error
Unfailing == (1..Len(sorted)) \ errors

\* the members of a set of indices in ascending order
RECURSIVE Ascending(_)
Ascending(S) ==
    IF S = {} THEN <<>>
    ELSE LET m == CHOOSE i \in S : \A j \in S : i <= j
         IN  <<m>> \o Ascending(S \ {m})

\* C23: an error raised by the query of one strategy does not end the call:
\* generateSelectors returns, every strategy whose query raised an error is
\* absent from the validated list, and the list is what validation makes of
\* the other strategies alone, each with the same matches.
C23_QueryErrorDropsOneStrategy ==
    Called =>
        LET others == Ascending(Unfailing)
            alone == validateStrategies([n \in 1..Len(others) |-> sorted[others[n]]],
                                        [n \in 1..Len(others) |-> <<matches[others[n]]>>])
        IN  /\ result.strategies = alone
            /\ Len(result.strategies) <= Len(sorted) - Cardinality(errors)
            /\ \A i \in errors : matches[i] = 0 /\ i \notin KeptIndices
            /\ result.primarySelector = selectPrimaryStrategy(alone)
            /\ result.confidence = calculateConfidence(alone)

\* the query of the first strategy raised an error, a later strategy is kept
C23_Witness ==
    /\ Called
    /\ 1 \in errors
    /\ 2 \notin errors
    /\ Len(sorted) >= 3
    /\ Len(result.strategies) >= 2
    /\ result.strategies[1].selector = sorted[2].selector
    /\ result.strategies[1].selector # sorted[1].selector
    /\ result.primarySelector # ""

\* the score of a scan candidate under the additive rubric
RubricScore(el) ==
    LET Bonus(cond, points) == IF cond THEN points ELSE 0
    IN  Bonus(el.isVisible, 30) + Bonus(el.isInteractive, 25) + Bonus(el.hasTestId, 40)
        + Bonus(el.id # "", 20) + Bonus(el.matchType = "exact", 15)
        + Bonus(el.position.width > 20 /\ el.position.height > 10, 10)
        + Bonus(el.tagName \in {"button", "input", "a"}, 20)
        - Bonus(el.position.width > 800 \/ el.position.height > 600, 15)

\* the candidates the scan of the findByVisibleText call in progress returns
ScanOfCall ==
    scanDomForText(page,
                   <<finder.args.text>> \o (IF finder.args.fallbacks = <<>> THEN <<>>
                                            ELSE finder.args.fallbacks[1]),
                   IF finder.args.elementTypes = <<>> THEN <<>>
                   ELSE finder.args.elementTypes[1])

FoundVisible == Found /\ finder.name = "findByVisibleText" /\ outcome.built

InBand(list, lo, hi) ==
    \A i \in 1..Len(list) : list[i].priority \in lo..hi

\* C25: each generated strategy has a priority inside the band of the tier
\* that generated it (test attributes 1-5, semantic 6-10, role 11-15, text
\* 16-20, structure 21-25, attribute combinations 26-30, fallbacks 31-35), for
\* every element and configuration, whatever the length of customAttributes;
\* every priority lies in 1..35.
C25_PriorityInTierBand ==
    Called =>
        /\ InBand(addTestAttributeStrategies(elementData), 1, 5)
        /\ InBand(addSemanticStrategies(elementData), 6, 10)
        /\ InBand(addRoleStrategies(elementData), 11, 15)
        /\ InBand(addTextStrategies(elementData), 16, 20)
        /\ InBand(addStructureStrategies(config, elementData), 21, 25)
        /\ InBand(addAttributeCombinationStrategies(config, elementData), 26, 30)
        /\ InBand(addFallbackStrategies(config, elementData), 31, 35)
        /\ InBand(generated, 1, 35)


\* C26: when the element has at least one class token and every token is a
\* utility class, the best class falls back to the first class token, so the
\* strategies .<first class> (priority 21) and <tag>.<first class> (priority
\* 22) are still generated.
C26_UtilityOnlyFallsBackToFirstClass ==
    (Called /\ ClassTokens # <<>> /\ SemanticTokens = {}) =>
        /\ "." \o ClassTokens[1] \in SelectorsAt(21)
        /\ elementData.tagName \o "." \o ClassTokens[1] \in SelectorsAt(22)


\* the outcome of the call alone on the instance
Alone(call) ==
    IF call.name = "findByVisibleText"
    THEN findByVisibleText(page, options, call.args.text, call.args.fallbacks,
                           call.args.elementTypes)
    ELSE IF call.name = "findByRelatedText"
    THEN findByRelatedText(page, call.args.targetText, call.args.relatedText,
                           call.args.containerTypes, call.args.maxLevelsUp,
                           call.args.maxStrategies)
    ELSE findByText(call.args.text, call.args.fallbacks)

RECURSIVE MatchingCssPaths(_)
MatchingCssPaths(path) ==
    IF path = <<>> THEN {}
    ELSE LET tag == ToLowerCase(path[1].tagName)
             own == {tag, tag \o ":nth-child(" \o ToString(1 + Len(path[1].prev)) \o ")"}
         IN  (IF path[1].id # "" THEN {tag \o "#" \o path[1].id} ELSE {})
             \cup (IF Len(path) = 1 THEN own ELSE {})
             \cup { outer \o " > " \o segment :
                      outer \in MatchingCssPaths(Tail(path)), segment \in own }

\* the selectors, among the forms the engine generates, that the element
\* itself satisfies in its document
MatchingSelectors(el) ==
    LET tag == ToLowerCase(el.path[1].tagName)
        byAttribute == { AttrSelector(a, el.attributes) : a \in DOMAIN el.attributes }
        tokens == { c \in Range(SplitSpace(ElementClassName(el))) : Len(c) > 0 }
        content == Trim(el.textContent)
    IN  byAttribute
        \cup { tag \o s : s \in byAttribute }
        \cup (IF ElementId(el) # "" THEN {"#" \o ElementId(el)} ELSE {})
        \cup { "." \o c : c \in tokens } \cup { tag \o "." \o c : c \in tokens }
        \cup {tag}
        \cup {"//" \o SegmentsFromRoot(el.path, 1)}
        \cup (IF content # ""
              THEN {"text=\"" \o content \o "\"", tag \o ":has-text(\"" \o content \o "\")"}
              ELSE {})
        \cup MatchingCssPaths(el.path)

\* C28: a non-empty primarySelector, run against the unchanged document,
\* selects a set of elements that contains the original element, and so does
\* every strategy kept by validation.
C28_KeptStrategiesMatchOriginal ==
    Called =>
        /\ result.primarySelector # ""
              => result.primarySelector \in MatchingSelectors(element)
        /\ \A i \in 1..Len(result.strategies) :
              result.strategies[i].selector \in MatchingSelectors(element)


\* the six searchable fields of element n of the page
SearchableFields(n) ==
    { TextContent(page, n), GetAttribute(page[n], "value"),
      GetAttribute(page[n], "placeholder"), GetAttribute(page[n], "aria-label"),
      GetAttribute(page[n], "title") }

\* C29: every candidate of the scan has at least one non-empty field among
\* text content, inner text, value, placeholder, aria-label and title that
\* contains, or is contained in, one of the text variations (ignoring case), so
\* an element without those attributes and with unrelated text is never a
\* candidate; each element appears at most once among the candidates.
C29_CandidatesMatchByText ==
    (Found /\ finder.name = "findByVisibleText") =>
        LET scan == ScanOfCall
            textVariations == <<finder.args.text>>
                              \o (IF finder.args.fallbacks = <<>> THEN <<>>
                                  ELSE finder.args.fallbacks[1])
        IN  /\ \A i \in 1..Len(scan) :
                  \E field \in SearchableFields(scan[i].node) \ {""} :
                      \E v \in 1..Len(textVariations) : TextsMatch(field, textVariations[v])
            /\ \A i, j \in 1..Len(scan) : scan[i].node = scan[j].node => i = j


DebugInfo == pc = "getDebugInfo"

\* the strategies of the call whose locator counts at least one element
Matching == { i \in 1..Len(outcome.given) :
                finder.args.counts[i] # <<>> /\ finder.args.counts[i][1] >= 1 }

\* C30: in the result of getDebugInfo, validStrategies is the sub-list, in
\* order, of the strategies that match at least one element; a valid strategy
\* is marked isUnique only if it matches exactly one element; recommended is
\* the selector of the first valid strategy, else of the first strategy, else
\* the input selector; strategies is never empty and contains the input
\* selector.
C30_DebugInfo ==
    DebugInfo =>
        LET strategies == outcome.given
            valid == Increasing(Matching)
        IN  /\ Len(outcome.validStrategies) = Len(valid)
            /\ \A k \in 1..Len(valid) :
                  /\ Base(outcome.validStrategies[k]) = Base(strategies[valid[k]])
                  /\ outcome.validStrategies[k].isUnique
                        => finder.args.counts[valid[k]] = <<1>>
            /\ outcome.recommended =
                  (IF valid # <<>> THEN strategies[valid[1]].selector
                   ELSE IF strategies # <<>> THEN strategies[1].selector
                   ELSE finder.args.selector)
            /\ strategies # <<>>
            /\ \E i \in 1..Len(strategies) : strategies[i].selector = finder.args.selector

====
